---- MODULE Spec2Model ----
(***************************************************************************)
(* A model of the MCP protocol engine of ajenitk-context: the JSON-RPC     *)
(* server (src/src/mcp/server.py), the client (src/src/mcp/client.py) and  *)
(* the registry and tool validation the server consults                    *)
(* (src/src/tools/registry.py, src/src/tools/validation.py,                *)
(* src/src/tools/base.py).                                                 *)
(*                                                                         *)
(* JSON objects are records; a key that is absent from a dict is absent    *)
(* from the record's DOMAIN.  A Python value that may be None is a         *)
(* sequence of length 0 (None) or 1 (the value).                           *)
(***************************************************************************)
EXTENDS Integers, Sequences, FiniteSets, TLC

VARIABLES
    c2s,            \* messages in flight from the client to the server
    s2c,            \* messages in flight from the server to the client
    sRunning,       \* MCPServer._running
    sInitialized,   \* MCPServer._initialized
    sClientInfo,    \* MCPServer._client_info
    sLevel,         \* MCPServer.security_level
    sToolOrder,     \* ToolRegistry._tools (names, in insertion order)
    sAliases,       \* ToolRegistry._aliases
    sTasks,         \* MCPServer._tasks: one dispatch task per received message
    sLogLevel,      \* the level of the "ajentik" logger
    nInjected,      \* how many messages the environment's peer has written
    cRunning,       \* MCPClient._running
    cInitialized,   \* MCPClient._initialized
    cNextId,        \* MCPClient._next_id
    cPending,       \* the keys of MCPClient._pending_requests
    cFutures,       \* the asyncio.Future created for each issued id
    cCalls,         \* the caller of _send_request for each issued id
    cIssued,        \* the ids _send_request has allocated, in order
    cRejected,      \* the operations refused with "Client not initialized"
    cProc,          \* MCPClient._process_task: where the read loop stands
    cConnect,       \* where the caller of connect() stands
    cDisc,          \* where the caller of disconnect() stands
    cAtDisconnect,  \* the ids whose caller was waiting when disconnect() was called
    tClosed,        \* the client's transport has been closed by the client
    tEof,           \* the client's transport has no more input: receive() returns None
    rTools,         \* ToolRegistry._tools (refactored registry): name -> tool instance
    rAliases,       \* ToolRegistry._aliases: alias -> name
    rIndex,         \* ToolRegistry._index: category -> names, tag -> names
    rStats,         \* ToolRegistry._execution_stats: name -> counters
    rLevel,         \* ToolRegistry._security_level
    rLast,          \* the last registry operation: its arguments and its outcome
    rOps,           \* how many registry operations were made
    probe,          \* the last application of a pure function: inputs and output
    cHandlers,      \* MCPClient._notification_handlers: method -> handlers, in order
    cNotified,      \* the handler calls the read loop has made, in order
    cHandling,      \* the request a handler awaits inside the read loop, if any
    sBusy,          \* the dispatch task whose tool the server's thread is running
    sStop,          \* where the caller of MCPServer.stop() stands
    sLoopEnded,     \* MCPServer._process_messages has returned
    sLate,          \* the sends dispatch tasks attempted on the closed transport
    ioKind,         \* which Transport class the transport under study is
    ioStream,       \* the frames its input stream carries, then the end of input
    ioPos,          \* the next frame of ioStream the reader task will read
    ioQueue,        \* Transport._message_queue
    ioClosed,       \* Transport._closed
    ioReader,       \* Transport._read_task: where the reader stands
    ioReceive,      \* where the caller of receive() stands
    ioReturned,     \* what the receive() calls have returned, in order
    oTools,         \* tools/registry.py ToolRegistry._tools
    oCategories,    \* tools/registry.py ToolRegistry._categories
    oAliases,       \* tools/registry.py ToolRegistry._aliases
    oOps            \* how many operations were applied to that registry

\* The server's configuration: set at construction, never assigned afterwards.
sConfig == <<sLevel, sToolOrder, sAliases>>
svars == <<sRunning, sInitialized, sClientInfo, sConfig, sTasks, sLogLevel, nInjected>>
cvars == <<cRunning, cInitialized, cNextId, cPending, cFutures, cCalls, cIssued,
           cRejected, cProc, cConnect, cDisc, cAtDisconnect, tClosed, tEof>>
rvars == <<rTools, rAliases, rIndex, rStats, rLevel, rLast, rOps>>
nvars == <<cHandlers, cNotified, cHandling>>
\* The components beside the protocol engine and the registry.
stopvars == <<sStop, sLoopEnded, sLate>>
kvars == <<sBusy, stopvars>>
iovars == <<ioKind, ioStream, ioPos, ioQueue, ioClosed, ioReader, ioReceive, ioReturned>>
ovars == <<oTools, oCategories, oAliases, oOps>>
xvars == <<nvars, kvars, iovars, ovars>>
tvars == <<rvars, probe, xvars>>
vars == <<c2s, s2c, svars, cvars, tvars>>

----------------------------------------------------------------------------
(* Bounds of the model. *)

\* How many messages the server's peer writes.
MaxMsgs == 2

\* How many requests the client issues.
MaxRequests == 3

\* How many messages the client's peer writes.
MaxResponses == 2

\* How many notification handlers the application registers.
MaxHandlers == 2

\* How many frames the input stream of a transport carries.
MaxFrames == 3

\* How many times receive() is called on a transport.
MaxReceives == 3

----------------------------------------------------------------------------
(* Optional values and dict access. *)

None == <<>>
Some(v) == <<v>>

\* dict.get(key): the value, or None when the key is absent.
Get(m, key) == IF key \in DOMAIN m THEN m[key] ELSE None

\* The elements of a sequence.
Range(s) == {s[i] : i \in DOMAIN s}

----------------------------------------------------------------------------
(* Error codes (src/src/mcp/models.py, class ErrorCode). *)

INVALID_REQUEST == -32600
METHOD_NOT_FOUND == -32601
INVALID_PARAMS == -32602
INTERNAL_ERROR == -32603
TOOL_NOT_FOUND == -32002
UNAUTHORIZED == -32005

SupportedVersion == "2024-11-05"

----------------------------------------------------------------------------
(* Tools and their validation (src/src/tools/validation.py).               *)
(*                                                                         *)
(* What ToolValidator reads of a tool: its name, the errors of its         *)
(* parameter list, and the source text of its execute method.              *)
(*   srcAvailable : inspect.getsource(tool.execute) succeeds               *)
(*   astParses    : ast.parse accepts that text (it rejects the indented   *)
(*                  text of a method defined in a class body)              *)
(*   importsBlocked: the parsed text imports one of blocked_modules        *)
(*   dangerousCall: the text contains one of dangerous_calls, "exec"       *)
(*                  among them as a substring                              *)
(*   body         : what execute does when called                         *)

Levels == {"unrestricted", "safe", "sandboxed", "restricted"}

ToolDefs ==
    [ echo  |-> [named |-> TRUE, paramErrors |-> FALSE, srcAvailable |-> TRUE,
                 astParses |-> FALSE, importsBlocked |-> FALSE,
                 dangerousCall |-> TRUE, body |-> "returns"],
      shell |-> [named |-> TRUE, paramErrors |-> FALSE, srcAvailable |-> TRUE,
                 astParses |-> TRUE, importsBlocked |-> TRUE,
                 dangerousCall |-> TRUE, body |-> "raisesToolError"],
      dyn   |-> [named |-> TRUE, paramErrors |-> FALSE, srcAvailable |-> FALSE,
                 astParses |-> FALSE, importsBlocked |-> FALSE,
                 dangerousCall |-> FALSE, body |-> "raises"] ]

ToolNames == DOMAIN ToolDefs

\* ToolValidator._run_security_checks: the errors of the import scan.
RunSecurityChecksErrors(t) ==
    ToolDefs[t].srcAvailable /\ ToolDefs[t].astParses /\ ToolDefs[t].importsBlocked

\* ToolValidator._check_system_calls: the only default rule that reports errors.
CheckSystemCallsErrors(t) ==
    ToolDefs[t].srcAvailable /\ ToolDefs[t].dangerousCall

\* ToolValidator._setup_default_rules: whether _check_system_calls is a rule.
HasSystemCallRule(level) == level \in {"sandboxed", "restricted"}

\* ToolValidator.validate_tool: results["valid"].
ValidateTool(t, level) ==
    /\ ToolDefs[t].named
    /\ ~ToolDefs[t].paramErrors
    /\ (level # "unrestricted" => ~RunSecurityChecksErrors(t))
    /\ (HasSystemCallRule(level) => ~CheckSystemCallsErrors(t))

\* validate_tool_safety(tool, level).
ValidateToolSafety(t, level) == ValidateTool(t, level)

----------------------------------------------------------------------------
(* The registry the server consults (src/src/tools/registry.py). *)

\* ToolRegistry.get: resolve the alias, then look the name up; None when absent.
RegistryGet(order, aliases, name) ==
    LET resolved == IF name \in DOMAIN aliases THEN aliases[name] ELSE name
    IN  IF resolved \in Range(order) THEN Some(resolved) ELSE None

\* ToolRegistry.list_tools(): the registered tools in insertion order.
RegistryListTools(order) == order

----------------------------------------------------------------------------
(* JSON-RPC messages (src/src/mcp/models.py). *)

EmptyDict == <<>>

\* message.get("params", {}): None when the member is null.
ParamsOf(m) == IF "params" \in DOMAIN m THEN m.params ELSE Some(EmptyDict)

\* JSONRPCRequest(id, method, params).dict()
JSONRPCRequest(id, method, params) ==
    [jsonrpc |-> "2.0", id |-> Some(id), method |-> method, params |-> params]

\* JSONRPCNotification(method, params).dict(): no id member.
JSONRPCNotification(method, params) ==
    [jsonrpc |-> "2.0", method |-> method, params |-> params]

\* JSONRPCResponse(id, result, error).dict(): pydantic's dict() writes every
\* field of the model, the ones left at their default None included.
JSONRPCResponse(id, result, error) ==
    [jsonrpc |-> "2.0", id |-> id, result |-> result, error |-> error]

IsResponse(m) == "method" \notin DOMAIN m /\ "jsonrpc" \in DOMAIN m
IsNotificationMsg(m) == "method" \in DOMAIN m /\ "id" \notin DOMAIN m

----------------------------------------------------------------------------
(* The server's replies (src/src/mcp/server.py, lines 164-190). *)

\* MCPServer._send_response: the message handed to transport.send.
SendResponse(msg_id, result) == JSONRPCResponse(msg_id, result, None)

\* MCPServer._send_error: the message handed to transport.send.
SendError(msg_id, code, message) ==
    JSONRPCResponse(msg_id, None, Some([code |-> code, message |-> message, data |-> None]))

\* MCPServer._send_notification
SendNotification(method, params) == JSONRPCNotification(method, params)

\* What a handler does: return a value, raise MCPError, or raise another exception.
Returns(v) == [kind |-> "result", value |-> v, code |-> 0, message |-> ""]
RaisesMCPError(code, message) ==
    [kind |-> "mcperror", value |-> None, code |-> code, message |-> message]
RaisesException(message) ==
    [kind |-> "exception", value |-> None, code |-> 0, message |-> message]

\* A variant of Reply that answers nothing when the handler raised an
\* exception other than MCPError.
ReplyUnlessException(msg_id, outcome) ==
    IF msg_id = None \/ outcome.kind = "exception" THEN <<>>
    ELSE IF outcome.kind = "result" THEN <<SendResponse(msg_id, outcome.value)>>
    ELSE <<SendError(msg_id, outcome.code, outcome.message)>>

\* MCPServer._handle_message, lines 141-159: what is sent once the handler has
\* returned or raised; nothing for a notification (msg_id is None).
Reply(msg_id, outcome) ==
    IF msg_id = None THEN <<>>
    ELSE IF outcome.kind = "result" THEN <<SendResponse(msg_id, outcome.value)>>
    ELSE IF outcome.kind = "mcperror"
         THEN <<SendError(msg_id, outcome.code, outcome.message)>>
    ELSE <<SendError(msg_id, INTERNAL_ERROR, outcome.message)>>

\* MCPServer._handlers: the methods of the dispatch table.
Handlers == {"initialize", "initialized", "tools/list", "tools/call",
             "logging/setLevel", "ping"}

----------------------------------------------------------------------------
(* The handlers' results. *)

\* InitializeRequest(**params): pydantic demands the three fields.
InitializeRequestValid(params) ==
    /\ params # None
    /\ {"protocolVersion", "capabilities", "clientInfo"} \subseteq DOMAIN params[1]

\* A variant of VersionSupported that accepts every version.
VersionSupportedAny(params) == TRUE

\* _handle_initialize, line 202: the version check.
VersionSupported(params) == params[1].protocolVersion = SupportedVersion

\* _handle_initialize: the InitializeResponse returned.
InitializeResponse ==
    [protocolVersion |-> SupportedVersion,
     capabilities |-> [tools |-> Some("listChanged"), resources |-> None,
                       prompts |-> None, logging |-> Some("empty")],
     serverInfo |-> "ajentik-mcp-server"]

\* _handle_initialize
HandleInitializeOutcome(params) ==
    IF ~InitializeRequestValid(params) THEN RaisesException("validation error")
    ELSE IF ~VersionSupported(params)
         THEN RaisesMCPError(INVALID_PARAMS, "Unsupported protocol version")
    ELSE Returns(Some(InitializeResponse))

\* A variant of SafeTools that lists every registered tool.
SafeToolsUnfiltered(order, level) == RegistryListTools(order)

\* _handle_list_tools, lines 241-253: the registry's tools that pass
\* validate_tool_safety, converted by tool_to_mcp (here: their names).
SafeTools(order, level) ==
    LET Safe(t) == ValidateToolSafety(t, level)
    IN  SelectSeq(RegistryListTools(order), Safe)

ToolToMcp(t) == [name |-> t, description |-> "description", inputSchema |-> "schema"]

ListToolsResponse(order, level) ==
    [tools |-> [i \in DOMAIN SafeTools(order, level) |-> ToolToMcp(SafeTools(order, level)[i])]]

\* _handle_list_tools
HandleListToolsOutcome(initialized, order, level) ==
    IF ~initialized THEN RaisesMCPError(INVALID_REQUEST, "Server not initialized")
    ELSE Returns(Some(ListToolsResponse(order, level)))

\* CallToolRequest(**params): name is required.
CallToolRequestValid(params) == params # None /\ "name" \in DOMAIN params[1]

\* CallToolRequest.arguments: None when the member is absent.
CallToolArguments(params) == Get(params[1], "arguments")

\* A variant of CallToolChecks without the validate_tool_safety check.
CallToolChecksNoSafety(initialized, order, aliases, level, params) ==
    IF ~initialized THEN RaisesMCPError(INVALID_REQUEST, "Server not initialized")
    ELSE IF ~CallToolRequestValid(params) THEN RaisesException("validation error")
    ELSE LET tool == RegistryGet(order, aliases, params[1].name)
         IN  IF tool = None THEN RaisesMCPError(TOOL_NOT_FOUND, "Tool not found")
             ELSE Returns(tool)

\* _handle_call_tool, lines 257-278: the checks made before the tool runs;
\* a result of kind "result" means the checks passed and carries the tool.
CallToolChecks(initialized, order, aliases, level, params) ==
    IF ~initialized THEN RaisesMCPError(INVALID_REQUEST, "Server not initialized")
    ELSE IF ~CallToolRequestValid(params) THEN RaisesException("validation error")
    ELSE LET tool == RegistryGet(order, aliases, params[1].name)
         IN  IF tool = None THEN RaisesMCPError(TOOL_NOT_FOUND, "Tool not found")
             ELSE IF ~ValidateToolSafety(tool[1], level)
                  THEN RaisesMCPError(UNAUTHORIZED, "does not meet security requirements")
             ELSE Returns(tool)

\* Tool.validate_parameters (src/src/tools/base.py): whether the arguments
\* are accepted; "bad" stands for an unknown key or a missing required one.
ValidateParametersOk(arguments) == arguments # Some("bad")

\* Tool.__call__ (src/src/tools/base.py, lines 159-184): the ToolResult, or
\* the ToolError that escapes.
ToolCall(t, arguments) ==
    IF ~ValidateParametersOk(arguments) THEN RaisesException("Unknown parameters")
    ELSE IF ToolDefs[t].body = "raisesToolError" THEN RaisesException("tool error")
    ELSE IF ToolDefs[t].body = "raises"
         THEN Returns([success |-> FALSE, data |-> None, error |-> Some("boom"),
                       metadata |-> Some("error_type")])
    ELSE Returns([success |-> TRUE, data |-> Some("output"), error |-> None,
                  metadata |-> None])

\* Whether Tool.__call__ reaches self.execute.
ToolBodyRuns(t, arguments) == ValidateParametersOk(arguments)

\* tool_result_to_mcp (src/src/mcp/converters.py, lines 158-210)
ToolResultToMcp(r) ==
    LET first == IF r.success
                 THEN [type |-> "text", text |-> IF r.data # None THEN r.data[1] ELSE ""]
                 ELSE [type |-> "text", text |-> "Error: " \o (IF r.error # None THEN r.error[1] ELSE "None")]
        meta == IF r.metadata # None THEN <<[type |-> "text", text |-> "Metadata"]>>
                ELSE <<>>
    IN  [content |-> <<first>> \o meta, isError |-> ~r.success]

\* _handle_call_tool, lines 293-312: run the tool and convert its result; any
\* exception becomes MCPError(INTERNAL_ERROR).
ExecuteToolOutcome(t, arguments) ==
    LET r == ToolCall(t, arguments)
    IN  IF r.kind = "result" THEN Returns(Some(ToolResultToMcp(r.value)))
        ELSE RaisesMCPError(INTERNAL_ERROR, "Tool execution failed")

\* SetLoggingLevelRequest(**params): level must be a LoggingLevel.
LoggingLevels == {"debug", "info", "warning", "error"}
SetLoggingLevelRequestValid(params) ==
    params # None /\ "level" \in DOMAIN params[1] /\ params[1].level \in LoggingLevels

\* _handle_set_logging_level: it does not look at _initialized.
HandleSetLoggingLevelOutcome(initialized, params) ==
    IF ~SetLoggingLevelRequestValid(params) THEN RaisesException("validation error")
    ELSE Returns(Some(EmptyDict))

\* _handle_ping: it does not look at _initialized.
HandlePingOutcome(initialized) == Returns(Some(EmptyDict))

----------------------------------------------------------------------------
(* The server (src/src/mcp/server.py). *)

\* A dispatch task: the message it handles, where it stands, what it has sent,
\* the tool whose execute it has called (None: none), the tool resolved by
\* _handle_call_tool, and the value of _initialized when its handler started.
NewTask(m) ==
    [msg |-> m, pc |-> "start", sent |-> <<>>, invoked |-> None,
     tool |-> None, initAtStart |-> FALSE]

MsgId(m) == Get(m, "id")
Method(i) == sTasks[i].msg.method
Starts(i, method) ==
    /\ sTasks[i].pc = "start"
    /\ "method" \in DOMAIN sTasks[i].msg
    /\ Method(i) = method

\* transport.send of the messages msgs by task i, which moves to pc.
TaskSends(i, msgs, pc) ==
    /\ s2c' = s2c \o msgs
    /\ sTasks' = [sTasks EXCEPT ![i].pc = pc, ![i].sent = @ \o msgs,
                                ![i].initAtStart = IF sTasks[i].pc = "start"
                                                   THEN sInitialized ELSE @]

\* MCPServer.start: _running = True, then the message loop.
SStart ==
    /\ ~sRunning
    /\ sRunning' = TRUE
    /\ UNCHANGED <<c2s, s2c, sInitialized, sClientInfo, sConfig, cvars, tvars, sTasks, sLogLevel,
                   nInjected>>

\* MCPServer._process_messages: receive one message and hand it to a new task.
SReceive ==
    /\ sRunning
    /\ c2s # <<>>
    /\ c2s' = Tail(c2s)
    /\ sTasks' = Append(sTasks, NewTask(Head(c2s)))
    /\ UNCHANGED <<s2c, sRunning, sInitialized, sClientInfo, sConfig, cvars, tvars, sLogLevel,
                   nInjected>>

\* _handle_message, lines 115-121: no method.
SHandleMissingMethod(i) ==
    /\ sTasks[i].pc = "start"
    /\ "method" \notin DOMAIN sTasks[i].msg
    /\ TaskSends(i, <<SendError(MsgId(sTasks[i].msg), INVALID_REQUEST, "Missing method")>>,
                 "done")
    /\ UNCHANGED <<c2s, sRunning, sInitialized, sClientInfo, sConfig, cvars, tvars, sLogLevel,
                   nInjected>>

\* _handle_message, lines 131-139: a method without a handler.
SHandleUnknownMethod(i) ==
    /\ sTasks[i].pc = "start"
    /\ "method" \in DOMAIN sTasks[i].msg
    /\ Method(i) \notin Handlers
    /\ TaskSends(i, Reply(MsgId(sTasks[i].msg),
                          RaisesMCPError(METHOD_NOT_FOUND, "Method not found")), "done")
    /\ UNCHANGED <<c2s, sRunning, sInitialized, sClientInfo, sConfig, cvars, tvars, sLogLevel,
                   nInjected>>

\* _handle_initialize, then the reply of _handle_message.
SHandleInitialize(i) ==
    LET params == ParamsOf(sTasks[i].msg)
        outcome == HandleInitializeOutcome(params)
    IN  /\ Starts(i, "initialize")
        /\ sClientInfo' = IF InitializeRequestValid(params)
                          THEN Some(params[1].clientInfo) ELSE sClientInfo
        /\ sInitialized' = IF outcome.kind = "result" THEN TRUE ELSE sInitialized
        /\ TaskSends(i, Reply(MsgId(sTasks[i].msg), outcome), "done")
        /\ UNCHANGED <<c2s, sRunning, sConfig, cvars, tvars, sLogLevel, nInjected>>

\* _handle_initialized: push notifications/tools/listChanged; a request (with
\* an id) is answered afterwards with a null result.
SHandleInitialized(i) ==
    /\ Starts(i, "initialized")
    /\ TaskSends(i, <<SendNotification("notifications/tools/listChanged", None)>>,
                 IF MsgId(sTasks[i].msg) = None THEN "done" ELSE "respond")
    /\ UNCHANGED <<c2s, sRunning, sInitialized, sClientInfo, sConfig, cvars, tvars, sLogLevel,
                   nInjected>>

SRespondInitialized(i) ==
    /\ sTasks[i].pc = "respond"
    /\ TaskSends(i, Reply(MsgId(sTasks[i].msg), Returns(None)), "done")
    /\ UNCHANGED <<c2s, sRunning, sInitialized, sClientInfo, sConfig, cvars, tvars, sLogLevel,
                   nInjected>>

\* _handle_list_tools, then the reply.
SHandleListTools(i) ==
    /\ Starts(i, "tools/list")
    /\ TaskSends(i, Reply(MsgId(sTasks[i].msg),
                          HandleListToolsOutcome(sInitialized, sToolOrder, sLevel)), "done")
    /\ UNCHANGED <<c2s, sRunning, sInitialized, sClientInfo, sConfig, cvars, tvars, sLogLevel,
                   nInjected>>

\* _handle_call_tool up to its first await: the checks and, when they pass, the
\* "Executing tool" notification.
SHandleCallTool(i) ==
    LET checks == CallToolChecks(sInitialized, sToolOrder, sAliases, sLevel,
                                 ParamsOf(sTasks[i].msg))
    IN  /\ Starts(i, "tools/call")
        /\ IF checks.kind = "result"
           THEN /\ s2c' = Append(s2c, SendNotification("notifications/message",
                                                       Some([level |-> "info"])))
                /\ sTasks' = [sTasks EXCEPT
                       ![i].pc = "exec",
                       ![i].sent = Append(@, SendNotification("notifications/message",
                                                              Some([level |-> "info"]))),
                       ![i].tool = checks.value,
                       ![i].initAtStart = sInitialized]
           ELSE TaskSends(i, Reply(MsgId(sTasks[i].msg), checks), "done")
        /\ UNCHANGED <<c2s, sRunning, sInitialized, sClientInfo, sConfig, cvars, tvars, sLogLevel,
                       nInjected>>

\* _handle_call_tool, lines 293-312: the tool runs, its result is converted,
\* and _handle_message replies.
ExecToolReplies(i) ==
    LET t == sTasks[i].tool[1]
        arguments == CallToolArguments(ParamsOf(sTasks[i].msg))
        msgs == Reply(MsgId(sTasks[i].msg), ExecuteToolOutcome(t, arguments))
    IN  /\ sTasks[i].pc = "exec"
        /\ s2c' = s2c \o msgs
        /\ sTasks' = [sTasks EXCEPT
               ![i].pc = "done",
               ![i].sent = @ \o msgs,
               ![i].invoked = IF ToolBodyRuns(t, arguments) THEN Some(t) ELSE None]

SExecTool(i) ==
    /\ ExecToolReplies(i)
    /\ UNCHANGED <<c2s, sRunning, sInitialized, sClientInfo, sConfig, cvars, tvars, sLogLevel,
                   nInjected>>

\* _handle_call_tool, line 295: "result = tool(**arguments)" is a plain call
\* inside the coroutine.  From the call to its return the thread of the event
\* loop is in the tool: no other coroutine is resumed.
SToolCalled(i) ==
    /\ sBusy = None
    /\ sTasks[i].pc = "exec"
    /\ sBusy' = Some(i)
    /\ UNCHANGED <<c2s, s2c, svars, cvars, rvars, probe, nvars, iovars, ovars, stopvars>>

\* The tool returns (lines 295-305) and _handle_message replies.
SToolReturned(i) ==
    /\ sBusy = Some(i)
    /\ ExecToolReplies(i)
    /\ sBusy' = None
    /\ UNCHANGED <<c2s, sRunning, sInitialized, sClientInfo, sConfig, cvars, rvars, probe,
                   nvars, iovars, ovars, stopvars, sLogLevel, nInjected>>

\* _handle_set_logging_level, then the reply.
SHandleSetLoggingLevel(i) ==
    LET params == ParamsOf(sTasks[i].msg)
    IN  /\ Starts(i, "logging/setLevel")
        /\ sLogLevel' = IF SetLoggingLevelRequestValid(params)
                        THEN params[1].level ELSE sLogLevel
        /\ TaskSends(i, Reply(MsgId(sTasks[i].msg),
                              HandleSetLoggingLevelOutcome(sInitialized, params)), "done")
        /\ UNCHANGED <<c2s, sRunning, sInitialized, sClientInfo, sConfig, cvars, tvars, nInjected>>

\* _handle_ping, then the reply.
SHandlePing(i) ==
    /\ Starts(i, "ping")
    /\ TaskSends(i, Reply(MsgId(sTasks[i].msg), HandlePingOutcome(sInitialized)), "done")
    /\ UNCHANGED <<c2s, sRunning, sInitialized, sClientInfo, sConfig, cvars, tvars, sLogLevel,
                   nInjected>>

----------------------------------------------------------------------------
(* The server's peer: any JSON-RPC client. *)

InitializeParams(version) ==
    Some([protocolVersion |-> version, capabilities |-> "caps", clientInfo |-> "client"])

CallParams(name, arguments) == Some([name |-> name, arguments |-> Some(arguments)])

\* The (method, params) pairs the peer sends: every method of the dispatch
\* table with well-formed and malformed params, and a method outside it.
PeerCalls ==
    {<<"initialize", InitializeParams(SupportedVersion)>>,
     <<"initialize", InitializeParams("1999-01-01")>>,
     <<"initialize", Some([protocolVersion |-> SupportedVersion])>>,
     <<"initialized", Some(EmptyDict)>>,
     <<"tools/list", None>>,
     <<"tools/call", CallParams("echo", "ok")>>,
     <<"tools/call", CallParams("echo", "bad")>>,
     <<"tools/call", CallParams("shell", "ok")>>,
     <<"tools/call", CallParams("sh", "ok")>>,
     <<"tools/call", CallParams("ghost", "ok")>>,
     <<"tools/call", Some(EmptyDict)>>,
     <<"logging/setLevel", Some([level |-> "debug"])>>,
     <<"logging/setLevel", Some([level |-> "verbose"])>>,
     <<"ping", None>>,
     <<"resources/list", None>>}

\* The calls the peer also sends without an id, as notifications.
PeerNotifications ==
    {<<"initialize", InitializeParams(SupportedVersion)>>,
     <<"initialized", Some(EmptyDict)>>,
     <<"tools/call", CallParams("echo", "ok")>>,
     <<"ping", None>>,
     <<"resources/list", None>>}

\* The messages the peer may write as its k-th: a request with id k, a
\* notification, or an object without a method (with the id k or without).
PeerMessages(k) ==
    {JSONRPCRequest(k, c[1], c[2]) : c \in PeerCalls}
    \cup {JSONRPCNotification(c[1], c[2]) : c \in PeerNotifications}
    \cup {[jsonrpc |-> "2.0", id |-> Some(k)], [jsonrpc |-> "2.0"]}

PeerSends ==
    /\ nInjected < MaxMsgs
    /\ \E m \in PeerMessages(nInjected + 1) : c2s' = Append(c2s, m)
    /\ nInjected' = nInjected + 1
    /\ UNCHANGED <<s2c, sRunning, sInitialized, sClientInfo, sConfig, cvars, tvars, sTasks, sLogLevel>>

----------------------------------------------------------------------------
(* The refactored tool layer (src/src/tools/base_refactored.py,             *)
(* src/src/tools/registry_refactored.py, src/src/utils/validation.py).      *)
(* Execution times are left out: no decision of the code reads them.        *)

\* How many registry operations a behaviour makes.
MaxOps == 4

\* exceptions.py: the classes the tool layer raises; "none" is a normal return.
ToolErrorClasses == {"ToolError", "ToolExecutionError", "ToolValidationError", "ToolNotFoundError"}

\* Python truthiness of an Optional[str]: None and "" are falsy.
Truthy(s) == s # None /\ s[1] # ""

\* ToolResult and its __post_init__: the constructed record, or the ValueError it raises.
MakeToolResult(success, data, error) ==
    IF success /\ Truthy(error) THEN [raised |-> "ValueError", result |-> None]
    ELSE IF ~success /\ ~Truthy(error) THEN [raised |-> "ValueError", result |-> None]
    ELSE [raised |-> "none", result |-> Some([success |-> success, data |-> data, error |-> error])]

\* A Python value with its runtime type.
PyStr(s) == [t |-> "string", v |-> s]
PyInt(s) == [t |-> "integer", v |-> s]
PyFloat(s) == [t |-> "float", v |-> s]
PyBool(s) == [t |-> "boolean", v |-> s]
PyList(s) == [t |-> "array", v |-> s]
PyDict(s) == [t |-> "object", v |-> s]

\* ToolParameter: required defaults to True and default to None.
ToolParameter(name, type, required) == [name |-> name, type |-> type, required |-> required, default |-> None]

\* The tool instances that are registered and executed: each a Tool subclass instance with
\* its metadata (name, category, tags), its parameters and what _execute_impl does.
ToolInstances == 1..5
Tool(i) ==
    CASE i = 1 -> [name |-> "a", category |-> "utilities", tags |-> {},
                   parameters |-> <<ToolParameter("text", "string", TRUE)>>, body |-> "echo"]
      [] i = 2 -> [name |-> "a", category |-> "system", tags |-> {"dangerous"},
                   parameters |-> <<>>, body |-> "returns"]
      [] i = 3 -> [name |-> "b", category |-> "utilities", tags |-> {"file_write"},
                   parameters |-> <<>>, body |-> "raises"]
      [] i = 4 -> [name |-> "b", category |-> "system", tags |-> {},
                   parameters |-> <<>>, body |-> "raisesToolError"]
      [] OTHER -> [name |-> "c", category |-> "utilities", tags |-> {"file_read"},
                   parameters |-> <<>>, body |-> "raisesEmpty"]

Categories == {"utilities", "system"}
Tags == {"system", "network", "file_write", "file_read", "dangerous", "utility"}

\* tools/base.py, ToolParameterType
ToolParameterType == {"string", "integer", "float", "boolean", "object", "array", "file_path", "url"}

\* parameter_type_to_python_type (type_mapping.py 86-104): a Python class is
\* named by the parameter type it stands for; a type outside the table maps
\* to str.
parameter_type_to_python_type(type) == IF type \in {"file_path", "url"} THEN "string" ELSE type

\* isinstance(value, cls): bool is a subclass of int.
IsInstance(value, cls) == value.t = cls \/ (cls = "integer" /\ value.t = "boolean")

\* validate_type_match (type_mapping.py 155-179): the numeric case accepts
\* every int and float, a bool included; object needs __getitem__ and keys;
\* array needs __iter__ and excludes str.
ValidateTypeMatch(value, type) ==
    IF type = "float" /\ (IsInstance(value, "integer") \/ IsInstance(value, "float")) THEN TRUE
    ELSE IF type = "object" THEN value.t = "object"
    ELSE IF type = "array" THEN value.t \in {"array", "object"}
    ELSE IsInstance(value, parameter_type_to_python_type(type))

\* validate_integer, validate_array, validate_object (validation.py 162-306):
\* the isinstance tests that follow validate_type.
ValidateValue(value, type) ==
    CASE type = "integer" -> IsInstance(value, "integer")
      [] type = "array" -> value.t = "array"
      [] type = "object" -> value.t = "object"
      [] OTHER -> TRUE

\* validate_parameters: unknown keys raise; a present parameter is type-checked; a missing
\* required parameter takes the specification's default, because hasattr(param_spec,
\* 'default') holds for every ToolParameter; a missing optional parameter is left out.
ValidateParameters(args, specs) ==
    LET names == {specs[k].name : k \in DOMAIN specs}
        spec(n) == specs[CHOOSE k \in DOMAIN specs : specs[k].name = n]
    IN  IF DOMAIN args \ names # {} THEN [raised |-> "ToolValidationError", validated |-> EmptyDict]
        ELSE IF \E n \in DOMAIN args : ~ValidateTypeMatch(args[n], spec(n).type)
                                        \/ ~ValidateValue(args[n], spec(n).type)
             THEN [raised |-> "ToolValidationError", validated |-> EmptyDict]
        ELSE [raised |-> "none",
              validated |-> [n \in {m \in names : m \in DOMAIN args \/ spec(m).required} |->
                                IF n \in DOMAIN args THEN Some(args[n]) ELSE spec(n).default]]

\* _execute_impl of the instances: what the body returns or raises.
ExecuteImpl(body, validated) ==
    CASE body = "echo" -> [raised |-> "none", message |-> None, data |-> validated["text"]]
      [] body = "returns" -> [raised |-> "none", message |-> None, data |-> Some(PyStr("out"))]
      [] body = "raises" -> [raised |-> "Exception", message |-> Some("boom"), data |-> None]
      [] body = "raisesToolError" -> [raised |-> "ToolExecutionError", message |-> Some("boom"), data |-> None]
      [] OTHER -> [raised |-> "Exception", message |-> Some(""), data |-> None]

\* Tool.execute: validation, the body, and the handlers of its try block.
ToolExecuteOn(t, args) ==
    LET v == ValidateParameters(args, t.parameters)
        b == ExecuteImpl(t.body, v.validated)
    IN  IF v.raised # "none" THEN [raised |-> v.raised, result |-> None, invoked |-> FALSE]
        ELSE IF b.raised = "none"
             THEN MakeToolResult(TRUE, b.data, None) @@ [invoked |-> TRUE]
        ELSE IF b.raised \in ToolErrorClasses
             THEN [raised |-> b.raised, result |-> None, invoked |-> TRUE]
        ELSE MakeToolResult(FALSE, None, b.message) @@ [invoked |-> TRUE]

ToolExecute(i, args) == ToolExecuteOn(Tool(i), args)

\* SecurityLevel.
SecurityLevel == {"unrestricted", "safe", "sandboxed", "restricted"}

\* A table in which sandboxed no longer denies what safe denies.
RestrictedTagsShrinking(level) ==
    CASE level = "safe" -> {"system", "network", "dangerous"}
      [] level = "sandboxed" -> {"system", "network", "file_write"}
      [] level = "restricted" -> {"system", "network", "file_write", "file_read", "dangerous"}
      [] OTHER -> {}

\* _check_security, the restricted_tags table read with .get(level, set()).
RestrictedTags(level) ==
    CASE level = "safe" -> {"system", "network", "dangerous"}
      [] level = "sandboxed" -> {"system", "network", "file_write", "dangerous"}
      [] level = "restricted" -> {"system", "network", "file_write", "file_read", "dangerous"}
      [] OTHER -> {}

\* A check that denies a tool only when every one of its tags is restricted.
CheckSecurityAllTags(level, tags) ==
    IF level = "unrestricted" THEN TRUE
    ELSE ~(tags # {} /\ \A t \in tags : t \in RestrictedTags(level))

\* _check_security.
CheckSecurity(level, tags) ==
    IF level = "unrestricted" THEN TRUE
    ELSE ~(\E t \in tags : t \in RestrictedTags(level))

\* The registry's dictionaries as one value.
RegistryState == [tools |-> rTools, aliases |-> rAliases, index |-> rIndex, stats |-> rStats]

Restrict(f, S) == [k \in S |-> f[k]]

\* ToolRegistryIndex.add and remove (no instance has an author).
IndexAdd(index, name, md) ==
    [by_category |-> [c \in Categories |-> IF c = md.category THEN index.by_category[c] \cup {name}
                                           ELSE index.by_category[c]],
     by_tag |-> [t \in Tags |-> IF t \in md.tags THEN index.by_tag[t] \cup {name} ELSE index.by_tag[t]]]
IndexRemove(index, name, md) ==
    [by_category |-> [c \in Categories |-> IF c = md.category THEN index.by_category[c] \ {name}
                                           ELSE index.by_category[c]],
     by_tag |-> [t \in Tags |-> IF t \in md.tags THEN index.by_tag[t] \ {name} ELSE index.by_tag[t]]]

\* The one-step alias resolution of unregister, get and exists.
Resolve(r, name) == IF name \in DOMAIN r.aliases THEN r.aliases[name] ELSE name

\* ToolRegistry.unregister on the state r.
Unregister(r, name) ==
    LET tool_name == Resolve(r, name)
    IN  IF tool_name \notin DOMAIN r.tools THEN [raised |-> "ToolNotFoundError", state |-> r]
        ELSE [raised |-> "none",
              state |-> [tools |-> Restrict(r.tools, DOMAIN r.tools \ {tool_name}),
                         aliases |-> Restrict(r.aliases, {al \in DOMAIN r.aliases : r.aliases[al] # tool_name}),
                         index |-> IndexRemove(r.index, tool_name, Tool(r.tools[tool_name])),
                         stats |-> Restrict(r.stats, DOMAIN r.stats \ {tool_name})]]

\* ToolRegistry.get: the instance, or None where it raises ToolNotFoundError.
RegistryGetTool(r, name) ==
    IF Resolve(r, name) \in DOMAIN r.tools THEN Some(r.tools[Resolve(r, name)]) ELSE None

\* ToolRegistry.exists.
Exists(r, name) == Resolve(r, name) \in DOMAIN r.tools

\* get_by_category and get_by_tag (lines 337-359): for each name of the index
\* entry that exists(name) accepts, what get(name) returns.
GetByCategory(r, category) ==
    [n \in {m \in r.index.by_category[category] : Exists(r, m)} |-> RegistryGetTool(r, n)[1]]
GetByTag(r, tag) ==
    [n \in {m \in r.index.by_tag[tag] : Exists(r, m)} |-> RegistryGetTool(r, n)[1]]

\* register, lines 193-197: the aliases are taken in order, and the first one in use stops
\* the loop with a ToolError when replace is not set.
RECURSIVE RegisterAliases(_, _, _, _)
RegisterAliases(aliases, list, tool_name, replace) ==
    IF list = <<>> THEN [raised |-> "none", aliases |-> aliases]
    ELSE IF Head(list) \in DOMAIN aliases /\ ~replace THEN [raised |-> "ToolError", aliases |-> aliases]
    ELSE RegisterAliases((Head(list) :> tool_name) @@ aliases, Tail(list), tool_name, replace)

\* A register that overwrites whatever is there, whether replace is set or not.
RegisterOverwriting(r, i, aliases, replace) ==
    LET tool_name == Tool(i).name
        s == IF tool_name \in DOMAIN r.tools THEN Unregister(r, tool_name).state ELSE r
    IN  [raised |-> "none",
         state |-> [tools |-> (tool_name :> i) @@ s.tools,
                    aliases |-> RegisterAliases(s.aliases, aliases, tool_name, TRUE).aliases,
                    index |-> IndexAdd(s.index, tool_name, Tool(i)),
                    stats |-> s.stats]]

\* ToolRegistry.register on the state r.
Register(r, i, aliases, replace) ==
    LET tool_name == Tool(i).name
        u == IF tool_name \in DOMAIN r.tools THEN Unregister(r, tool_name)
             ELSE [raised |-> "none", state |-> r]
        s == u.state
        al == RegisterAliases(s.aliases, aliases, tool_name, replace)
    IN  IF tool_name \in DOMAIN r.tools /\ ~replace THEN [raised |-> "ToolError", state |-> r]
        ELSE IF u.raised # "none" THEN [raised |-> u.raised, state |-> r]
        ELSE [raised |-> al.raised,
              state |-> [tools |-> (tool_name :> i) @@ s.tools,
                         aliases |-> al.aliases,
                         index |-> IndexAdd(s.index, tool_name, Tool(i)),
                         stats |-> s.stats]]

\* _update_stats: the counters of one tool after one more execution.
UpdateStats(stats, tool_name, success) ==
    LET old == IF tool_name \in DOMAIN stats THEN stats[tool_name]
               ELSE [total_executions |-> 0, successful_executions |-> 0, failed_executions |-> 0]
    IN  (tool_name :> [total_executions |-> old.total_executions + 1,
                       successful_executions |-> old.successful_executions + (IF success THEN 1 ELSE 0),
                       failed_executions |-> old.failed_executions + (IF success THEN 0 ELSE 1)]) @@ stats

\* An execute without the security check.
ExecuteUnchecked(r, level, name, args) ==
    LET t == RegistryGetTool(r, name)
        x == ToolExecute(t[1], args)
    IN  IF t = None THEN [raised |-> "ToolNotFoundError", result |-> None, invoked |-> FALSE, stats |-> r.stats]
        ELSE x @@ [stats |-> UpdateStats(r.stats, Tool(t[1]).name, x.raised = "none")]

\* ToolRegistry.execute on the state r: the outcome and the statistics afterwards.
Execute(r, level, name, args) ==
    LET t == RegistryGetTool(r, name)
        x == ToolExecute(t[1], args)
    IN  IF t = None THEN [raised |-> "ToolNotFoundError", result |-> None, invoked |-> FALSE, stats |-> r.stats]
        ELSE IF ~CheckSecurity(level, Tool(t[1]).tags)
             THEN [raised |-> "SecurityError", result |-> None, invoked |-> FALSE, stats |-> r.stats]
        ELSE x @@ [stats |-> UpdateStats(r.stats, Tool(t[1]).name, x.raised = "none")]

\* The instances that are AsyncTool subclass instances: their body is
\* _execute_impl_async.
AsyncTools == {2, 5}

\* AsyncTool.execute_async (base_refactored.py 368-415): validation and the
\* body inside one try block whose handler turns every Exception, a
\* ToolError included, into a ToolResult with success false.
AsyncToolExecute(i, args) ==
    LET v == ValidateParameters(args, Tool(i).parameters)
        b == ExecuteImpl(Tool(i).body, v.validated)
    IN  IF v.raised # "none"
        THEN MakeToolResult(FALSE, None, Some("invalid parameters")) @@ [invoked |-> FALSE]
        ELSE IF b.raised = "none"
             THEN MakeToolResult(TRUE, b.data, None) @@ [invoked |-> TRUE]
        ELSE MakeToolResult(FALSE, None, b.message) @@ [invoked |-> TRUE]

\* ToolRegistry.execute_async on the state r.  For a tool that is not an
\* AsyncTool, line 419 hands the keyword arguments to loop.run_in_executor,
\* which takes positional arguments only: with any argument the call raises
\* TypeError before execute runs; without arguments execute runs in the
\* worker.  For an AsyncTool the security check is followed by
\* tool.execute_async, and _update_stats is not called.
ExecuteAsync(r, level, name, args) ==
    LET t == RegistryGetTool(r, name)
    IN  IF t = None THEN [raised |-> "ToolNotFoundError", result |-> None, invoked |-> FALSE, stats |-> r.stats]
        ELSE IF t[1] \notin AsyncTools
             THEN IF DOMAIN args # {}
                  THEN [raised |-> "TypeError", result |-> None, invoked |-> FALSE, stats |-> r.stats]
                  ELSE Execute(r, level, name, args)
        ELSE IF ~CheckSecurity(level, Tool(t[1]).tags)
             THEN [raised |-> "SecurityError", result |-> None, invoked |-> FALSE, stats |-> r.stats]
        ELSE AsyncToolExecute(t[1], args) @@ [stats |-> r.stats]

\* What rLast records of one operation: its arguments, what get(name) gave before it,
\* what it raised, the ToolResult it returned, and whether _execute_impl was called.
Last(op, name, inst, aliases, replace, args, before, raised, result, invoked) ==
    [op |-> op, name |-> name, inst |-> inst, aliases |-> aliases, replace |-> replace,
     args |-> args, before |-> before, raised |-> raised, result |-> result, invoked |-> invoked]

\* The inputs of the operations.
AliasLists == {<<>>, <<"x">>, <<"a">>, <<"x", "a">>}
Names == {"a", "b", "c", "x"}
Arguments == {EmptyDict, [text |-> PyStr("v")], [text |-> PyInt("7")], [zzz |-> PyStr("v")]}

SetRegistry(s) ==
    /\ rTools' = s.tools
    /\ rAliases' = s.aliases
    /\ rIndex' = s.index
    /\ rStats' = s.stats

\* registry.register(tool, aliases, replace)
RRegister ==
    /\ rOps < MaxOps
    /\ \E i \in ToolInstances, aliases \in AliasLists, replace \in BOOLEAN :
           LET o == Register(RegistryState, i, aliases, replace)
           IN  /\ SetRegistry(o.state)
               /\ rLast' = Last("register", Tool(i).name, i, aliases, replace, EmptyDict,
                                 RegistryGetTool(RegistryState, Tool(i).name), o.raised, None, FALSE)
    /\ rOps' = rOps + 1
    /\ UNCHANGED <<xvars, c2s, s2c, svars, cvars, rLevel, probe>>

\* registry.unregister(name)
RUnregister ==
    /\ rOps < MaxOps
    /\ \E name \in Names :
           LET o == Unregister(RegistryState, name)
           IN  /\ SetRegistry(o.state)
               /\ rLast' = Last("unregister", name, 0, <<>>, FALSE, EmptyDict,
                                 RegistryGetTool(RegistryState, name), o.raised, None, FALSE)
    /\ rOps' = rOps + 1
    /\ UNCHANGED <<xvars, c2s, s2c, svars, cvars, rLevel, probe>>

\* registry.execute(name, **kwargs)
RExecute ==
    /\ rOps < MaxOps
    /\ \E name \in Names, args \in Arguments :
           LET o == Execute(RegistryState, rLevel, name, args)
           IN  /\ rStats' = o.stats
               /\ rLast' = Last("execute", name, 0, <<>>, FALSE, args,
                                 RegistryGetTool(RegistryState, name), o.raised, o.result, o.invoked)
    /\ rOps' = rOps + 1
    /\ UNCHANGED <<xvars, c2s, s2c, svars, cvars, rTools, rAliases, rIndex, rLevel, probe>>

\* await registry.execute_async(name, **kwargs)
RExecuteAsync ==
    /\ rOps < MaxOps
    /\ \E name \in Names, args \in Arguments :
           LET o == ExecuteAsync(RegistryState, rLevel, name, args)
           IN  /\ rStats' = o.stats
               /\ rLast' = Last("execute_async", name, 0, <<>>, FALSE, args,
                                 RegistryGetTool(RegistryState, name), o.raised, o.result, o.invoked)
    /\ rOps' = rOps + 1
    /\ UNCHANGED <<xvars, c2s, s2c, svars, cvars, rTools, rAliases, rIndex, rLevel, probe>>

\* registry.set_security_level(level)
RSetSecurityLevel ==
    /\ rOps < MaxOps
    /\ \E level \in SecurityLevel :
           /\ rLevel' = level
           /\ rLast' = Last("set_security_level", level, 0, <<>>, FALSE, EmptyDict, None, "none", None, FALSE)
    /\ rOps' = rOps + 1
    /\ UNCHANGED <<xvars, c2s, s2c, svars, cvars, rTools, rAliases, rIndex, rStats, probe>>

\* ToolRegistry.__init__ with the default security level.
RInit ==
    /\ rTools = EmptyDict
    /\ rAliases = EmptyDict
    /\ rIndex = [by_category |-> [c \in Categories |-> {}], by_tag |-> [t \in Tags |-> {}]]
    /\ rStats = EmptyDict
    /\ rLevel = "safe"
    /\ rLast = Last("init", "", 0, <<>>, FALSE, EmptyDict, None, "none", None, FALSE)
    /\ rOps = 0

----------------------------------------------------------------------------
(* The registry of src/src/tools/registry.py, which create_mcp_server gives  *)
(* the MCP server: register overwrites, and the category index is a          *)
(* dictionary whose empty entries unregister deletes.                        *)

\* The Tool instances registered there: name and category.
OldInstances == 1..4
OldTool(i) ==
    CASE i = 1 -> [name |-> "a", category |-> "utilities"]
      [] i = 2 -> [name |-> "a", category |-> "system"]
      [] i = 3 -> [name |-> "b", category |-> "utilities"]
      [] OTHER -> [name |-> "b", category |-> "system"]

OldAliasLists == {<<>>, <<"x">>, <<"a">>}
OldNames == {"a", "b", "x"}

\* ToolRegistry.__init__, lines 19-22.
OInit == oTools = EmptyDict /\ oCategories = EmptyDict /\ oAliases = EmptyDict /\ oOps = 0

\* register, lines 42-45: each alias is pointed at the tool, in order.
RECURSIVE OldRegisterAliases(_, _, _)
OldRegisterAliases(aliases, list, tool_name) ==
    IF list = <<>> THEN aliases
    ELSE OldRegisterAliases((Head(list) :> tool_name) @@ aliases, Tail(list), tool_name)

\* registry.register(tool, aliases), lines 24-47: the tool is stored under its
\* name, whatever was there, and its name is added to the entry of its
\* category; the entry of the category of a tool it overwrites is not touched.
ORegister ==
    /\ oOps < MaxOps
    /\ \E i \in OldInstances, aliases \in OldAliasLists :
           LET tool == OldTool(i)
               names == IF tool.category \in DOMAIN oCategories
                        THEN oCategories[tool.category] ELSE {}
           IN  /\ oTools' = (tool.name :> i) @@ oTools
               /\ oCategories' = (tool.category :> (names \cup {tool.name})) @@ oCategories
               /\ oAliases' = OldRegisterAliases(oAliases, aliases, tool.name)
    /\ oOps' = oOps + 1
    /\ UNCHANGED <<c2s, s2c, svars, cvars, rvars, probe, nvars, kvars, iovars>>

\* registry.unregister(tool_name), lines 57-82: the alias is resolved, the
\* tool is deleted, its name is discarded from the entry of its category (an
\* entry left empty is deleted) and its aliases are deleted.  An unknown name
\* returns False.
OUnregister ==
    /\ oOps < MaxOps
    /\ \E name \in OldNames :
           LET tool_name == IF name \in DOMAIN oAliases THEN oAliases[name] ELSE name
           IN  IF tool_name \notin DOMAIN oTools
               THEN UNCHANGED <<oTools, oCategories, oAliases>>
               ELSE LET category == OldTool(oTools[tool_name]).category
                        left == IF category \in DOMAIN oCategories
                                THEN oCategories[category] \ {tool_name} ELSE {}
                    IN  /\ oTools' = Restrict(oTools, DOMAIN oTools \ {tool_name})
                        /\ oCategories' =
                               IF category \notin DOMAIN oCategories THEN oCategories
                               ELSE IF left = {}
                               THEN Restrict(oCategories, DOMAIN oCategories \ {category})
                               ELSE [oCategories EXCEPT ![category] = left]
                        /\ oAliases' = Restrict(oAliases, {al \in DOMAIN oAliases :
                                                              oAliases[al] # tool_name})
    /\ oOps' = oOps + 1
    /\ UNCHANGED <<c2s, s2c, svars, cvars, rvars, probe, nvars, kvars, iovars>>

\* registry.list_tools(category), lines 95-100, for a category name: the
\* names of the category's entry are looked up with self._tools[name], which
\* raises KeyError for a name that is not registered.
OldListTools(category) ==
    LET tool_names == IF category \in DOMAIN oCategories THEN oCategories[category] ELSE {}
    IN  IF tool_names \subseteq DOMAIN oTools
        THEN [raised |-> "none", tools |-> [n \in tool_names |-> oTools[n]]]
        ELSE [raised |-> "KeyError", tools |-> EmptyDict]

\* Nothing has been computed yet.
\* MCPClient.__init__, line 49: no notification handler.
NInit == cHandlers = <<>> /\ cNotified = <<>> /\ cHandling = None

\* The server's event loop runs no tool before the first message.
KInit == sBusy = None /\ sStop = "idle" /\ sLoopEnded = FALSE /\ sLate = {}

\* Transport.__init__ (transport.py 39-44, 217-222): an empty queue, not
\* closed, no reader task; nothing has been received.
IoInit(kind, stream) ==
    /\ ioKind = kind
    /\ ioStream = stream
    /\ ioPos = 1
    /\ ioQueue = <<>>
    /\ ioClosed = FALSE
    /\ ioReader = "none"
    /\ ioReceive = "idle"
    /\ ioReturned = <<>>

TInit == RInit /\ probe = [op |-> "none"] /\ NInit /\ KInit /\ IoInit("stdio", <<>>) /\ OInit

----------------------------------------------------------------------------
(* The converters (src/src/mcp/converters.py) over the tool specifications  *)
(* of src/src/tools/base.py, and the pure functions of the tool layer,      *)
(* each applied to inputs drawn from bounded sets.                          *)

\* isinstance(v, ...) as ToolParameter.validate_default of tools/base.py asks it: a bool
\* is an int, and an int is accepted where a float is expected.
ValidateDefault(type, default) ==
    IF default = None THEN TRUE
    ELSE CASE type = "string" -> default[1].t = "string"
           [] type = "integer" -> default[1].t \in {"integer", "boolean"}
           [] type = "float" -> default[1].t \in {"integer", "float", "boolean"}
           [] type = "boolean" -> default[1].t = "boolean"
           [] OTHER -> TRUE

\* The constraints maps of a parameter: none, an ordinary bound, and maps whose keys are
\* also keys of the JSON schema of a parameter.
ConstraintMaps == {EmptyDict, [minimum |-> PyInt("1")], [default |-> PyInt("5")], [type |-> "integer"]}

\* The valid ToolParameter objects with a given name: pydantic has accepted the default.
ToolParameters(name) ==
    {p \in [name : {name}, type : ToolParameterType, required : BOOLEAN,
            default : {None, Some(PyStr("x")), Some(PyInt("5"))}, constraints : ConstraintMaps] :
        ValidateDefault(p.type, p.default)}

\* The tool specifications: a name and up to two parameters with distinct names.
ToolSpecs ==
    {[name |-> "t", parameters |-> ps] :
        ps \in {<<>>} \cup {<<p>> : p \in ToolParameters("p")}
               \cup {<<p, q>> : p \in ToolParameters("p"),
                                q \in {x \in ToolParameters("q") : x.constraints = EmptyDict /\ x.default = None}}
               \cup {<<q, p>> : p \in {x \in ToolParameters("p") : x.constraints = EmptyDict /\ x.default = None},
                                q \in ToolParameters("q")}}

\* parameter_type_to_json_schema
parameter_type_to_json_schema(type) ==
    CASE type = "string" -> [type |-> "string"]
      [] type = "integer" -> [type |-> "integer"]
      [] type = "float" -> [type |-> "number"]
      [] type = "boolean" -> [type |-> "boolean"]
      [] type = "array" -> [type |-> "array"]
      [] type = "object" -> [type |-> "object"]
      [] type = "file_path" -> [type |-> "string", format |-> "path"]
      [] type = "url" -> [type |-> "string", format |-> "uri"]
      [] OTHER -> [type |-> "string"]

\* tool_to_mcp, lines 32-47: the JSON schema of one parameter; schema.update(constraints)
\* lets a constraint replace a key set before it.
ParameterSchema(param) ==
    LET typed == parameter_type_to_json_schema(param.type)
        described == [description |-> "description"] @@ typed
        defaulted == IF param.default # None THEN ("default" :> param.default[1]) @@ described
                     ELSE described
    IN  param.constraints @@ defaulted

\* tool_to_mcp: the MCPTool; "required" is present only when some parameter is required,
\* and properties keeps the parameters in order, one entry for each name.
tool_to_mcp(tool) ==
    LET required == SelectSeq([k \in DOMAIN tool.parameters |-> tool.parameters[k]],
                              LAMBDA p : p.required)
        base == [type |-> "object",
                 properties |-> [k \in DOMAIN tool.parameters |->
                                    [name |-> tool.parameters[k].name,
                                     schema |-> ParameterSchema(tool.parameters[k])]]]
    IN  [name |-> tool.name,
         description |-> "description",
         inputSchema |-> IF required # <<>>
                         THEN ("required" :> [k \in DOMAIN required |-> required[k].name]) @@ base
                         ELSE base]

\* mcp_to_tool, lines 108-126: the ToolParameterType read from a property's schema.
SchemaToParameterType(schema) ==
    LET json_type == Get(schema, "type")
        format == Get(schema, "format")
    IN  CASE json_type = "string" /\ format = "uri" -> "url"
          [] json_type = "string" /\ format = "path" -> "file_path"
          [] json_type = "string" -> "string"
          [] json_type = "integer" -> "integer"
          [] json_type = "number" -> "float"
          [] json_type = "boolean" -> "boolean"
          [] json_type = "array" -> "array"
          [] json_type = "object" -> "object"
          [] OTHER -> "string"

\* mcp_to_tool, lines 128-140: the ToolParameter built from one property, with the
\* constraints the converter keeps; its default is validated again on construction.
SchemaToParameter(name, schema, required_params) ==
    LET kept == {"enum", "minimum", "maximum", "minLength", "maxLength", "pattern"} \cap DOMAIN schema
    IN  [name |-> name,
         type |-> SchemaToParameterType(schema),
         required |-> name \in Range(required_params),
         default |-> IF "default" \in DOMAIN schema THEN Some(schema["default"]) ELSE None,
         constraints |-> IF kept # {} THEN Some([k \in kept |-> schema[k]]) ELSE None]

\* mcp_to_tool and MCPWrappedTool.parameters(): the name and the parameters of the wrapped
\* tool, or the error pydantic raises when a rebuilt ToolParameter is not valid.
mcp_to_tool(mcp) ==
    LET schema == mcp.inputSchema
        required_params == IF "required" \in DOMAIN schema THEN schema["required"] ELSE <<>>
        params == [k \in DOMAIN schema.properties |->
                      SchemaToParameter(schema.properties[k].name, schema.properties[k].schema,
                                        required_params)]
    IN  IF \E k \in DOMAIN params : ~ValidateDefault(params[k].type, params[k].default)
        THEN [raised |-> "ValidationError", name |-> mcp.name, parameters |-> <<>>]
        ELSE [raised |-> "none", name |-> mcp.name, parameters |-> params]

\* The ToolResult objects of tools/base.py handed to tool_result_to_mcp: any combination
\* of the fields (the pydantic model has no validator); metadata is None when empty.
ToolResults ==
    [success : BOOLEAN, data : {None, Some("output")}, error : {None, Some(""), Some("boom")},
     metadata : {None, Some("error_type")}]

\* _check_security applied at two levels to one tag set.
PCheckSecurity ==
    /\ probe.op = "none"
    /\ \E level \in SecurityLevel, other \in SecurityLevel, tags \in SUBSET Tags :
           probe' = [op |-> "check_security", level |-> level, other |-> other, tags |-> tags,
                     allowed |-> CheckSecurity(level, tags),
                     allowedOther |-> CheckSecurity(other, tags)]
    /\ UNCHANGED <<xvars, c2s, s2c, svars, cvars, rvars>>

\* ToolResult(success=..., data=..., error=...) of base_refactored.py
PToolResult ==
    /\ probe.op = "none"
    /\ \E success \in BOOLEAN, data \in {None, Some(PyStr("out"))}, error \in {None, Some(""), Some("boom")} :
           probe' = [op |-> "ToolResult", success |-> success, data |-> data, error |-> error,
                     out |-> MakeToolResult(success, data, error)]
    /\ UNCHANGED <<xvars, c2s, s2c, svars, cvars, rvars>>

\* mcp_to_tool(tool_to_mcp(tool))
PRoundTrip ==
    /\ probe.op = "none"
    /\ \E tool \in ToolSpecs :
           probe' = [op |-> "round_trip", tool |-> tool, mcp |-> tool_to_mcp(tool),
                     back |-> mcp_to_tool(tool_to_mcp(tool))]
    /\ UNCHANGED <<xvars, c2s, s2c, svars, cvars, rvars>>

\* The content items of a CallToolResponse (List[Dict[str, Any]]): text blocks whose text
\* is a str, is not a str, or is missing, and an image block.
ContentItems ==
    {[type |-> "text", text |-> PyStr("boom")], [type |-> "text", text |-> PyInt("5")],
     [type |-> "text"], [type |-> "image", data |-> PyStr("img")]}
Contents ==
    {<<>>} \cup {<<i>> : i \in ContentItems} \cup {<<i, j>> : i \in ContentItems, j \in ContentItems}

\* The content as the client receives it from tool_result_to_mcp: every text is a str.
Received(response) ==
    [isError |-> response.isError,
     content |-> [k \in DOMAIN response.content |-> [response.content[k] EXCEPT !.text = PyStr(@)]]]

\* mcp_response_to_tool_result: the ToolResult of tools/base.py, or what is raised. With
\* isError the error is the text of the first text block (pydantic requires a str for
\* ToolResult.error); otherwise the texts are collected and joined with "\n".join.
mcp_response_to_tool_result(response) ==
    LET content == response.content
        texts == SelectSeq(content, LAMBDA item : item.type = "text")
        text(item) == IF "text" \in DOMAIN item THEN item.text ELSE PyStr("")
        others == SelectSeq(content, LAMBDA item : item.type # "text")
        error_msg == IF texts = <<>> THEN PyStr("MCP tool execution failed")
                     ELSE IF "text" \in DOMAIN texts[1] THEN texts[1].text
                     ELSE PyStr("MCP tool execution failed")
    IN  IF response.isError
        THEN IF error_msg.t # "string" THEN [raised |-> "ValidationError", result |-> None]
             ELSE [raised |-> "none",
                   result |-> Some([success |-> FALSE, data |-> None, error |-> Some(error_msg.v),
                                    metadata |-> None])]
        ELSE IF Len(texts) = 1 /\ others = <<>>
             THEN [raised |-> "none",
                   result |-> Some([success |-> TRUE, data |-> Some(text(texts[1])), error |-> None,
                                    metadata |-> None])]
        ELSE IF \E k \in DOMAIN texts : text(texts[k]).t # "string"
             THEN [raised |-> "TypeError", result |-> None]
        ELSE [raised |-> "none",
              result |-> Some([success |-> TRUE,
                               data |-> IF content = <<>> THEN None ELSE Some([t |-> "object", v |-> "dict"]),
                               error |-> None, metadata |-> None])]

\* tool_result_to_mcp(result), and mcp_response_to_tool_result of what it returns
PToolResultToMcp ==
    /\ probe.op = "none"
    /\ \E result \in ToolResults :
           probe' = [op |-> "tool_result_to_mcp", result |-> result, out |-> ToolResultToMcp(result),
                     back |-> mcp_response_to_tool_result(Received(ToolResultToMcp(result)))]
    /\ UNCHANGED <<xvars, c2s, s2c, svars, cvars, rvars>>

\* mcp_response_to_tool_result(response)
PMcpResponseToToolResult ==
    /\ probe.op = "none"
    /\ \E isError \in BOOLEAN, content \in Contents :
           probe' = [op |-> "mcp_response_to_tool_result", isError |-> isError, content |-> content,
                     out |-> mcp_response_to_tool_result([isError |-> isError, content |-> content])]
    /\ UNCHANGED <<xvars, c2s, s2c, svars, cvars, rvars>>

\* ToolSandbox.execute_sandboxed (src/src/tools/validation.py, lines 342-385)
\* for a tool whose execute runs past max_cpu_time (overrun) or not.  The
\* handler of SIGALRM raises ToolError in the frame the signal interrupts,
\* inside Tool.__call__, whose line 176-177 re-raises a ToolError; line 383
\* disarms the alarm and line 384 raises again.  alarm: whether the timer is
\* armed when execute_sandboxed is left.
ExecuteSandboxed(t, level, arguments, overrun) ==
    IF ~ValidateTool(t, level)
    THEN [outcome |-> RaisesException("Tool validation failed"), alarm |-> "unset",
          timedOut |-> FALSE]
    ELSE IF overrun /\ ToolBodyRuns(t, arguments)
    THEN [outcome |-> RaisesException("Tool execution timed out"), alarm |-> "disarmed",
          timedOut |-> TRUE]
    ELSE [outcome |-> ToolCall(t, arguments), alarm |-> "disarmed", timedOut |-> FALSE]

\* The values and keys of one keyword argument.
PyValues == {PyStr("v"), PyInt("7"), PyFloat("2.5"), PyBool("True"), PyList("[]"), PyDict("{}")}
ArgumentKeys == {"p", "zzz"}

\* tool.execute(key=value) on a tool that declares the one required
\* parameter p of the given type.
PExecute ==
    /\ probe.op = "none"
    /\ \E type \in ToolParameterType, key \in ArgumentKeys, value \in PyValues :
           LET t == [parameters |-> <<ToolParameter("p", type, TRUE)>>, body |-> "returns"]
               args == [k \in {key} |-> value]
           IN  probe' = [op |-> "execute", type |-> type, key |-> key, value |-> value,
                         out |-> ToolExecuteOn(t, args)]
    /\ UNCHANGED <<xvars, c2s, s2c, svars, cvars, rvars>>

\* execute_sandboxed applied to a tool of the registry.
PExecuteSandboxed ==
    /\ probe.op = "none"
    /\ \E t \in ToolNames, level \in Levels, arguments \in {Some("ok"), Some("bad")},
          overrun \in BOOLEAN :
           probe' = [op |-> "execute_sandboxed", tool |-> t, level |-> level,
                     arguments |-> arguments, overrun |-> overrun,
                     out |-> ExecuteSandboxed(t, level, arguments, overrun)]
    /\ UNCHANGED <<xvars, c2s, s2c, svars, cvars, rvars>>

----------------------------------------------------------------------------
(* The client (src/src/mcp/client.py). *)

\* _send_request, lines 184-185: the id allocated after the id n.
NextId(n) == n + 1

\* asyncio.Future(): not done.
PendingFuture == [state |-> "pending", value |-> None]
CancelledFuture == [state |-> "cancelled", value |-> None]

\* The smallest element of a non-empty set of integers.
Min(S) == CHOOSE k \in S : \A j \in S : k <= j

\* A variant of MatchPending that answers the oldest pending request.
MatchPendingOldest(m, pending) ==
    IF "id" \in DOMAIN m /\ m.id # None /\ m.id[1] \in pending
    THEN Some(Min(pending)) ELSE None

\* _handle_message, line 146: the pending request the message answers
\* (None: it answers no pending request).
MatchPending(m, pending) ==
    IF "id" \in DOMAIN m /\ m.id # None /\ m.id[1] \in pending
    THEN m.id ELSE None

\* _handle_message, lines 150-160: what the future popped for the message
\* becomes.  With an "error" member that is null, error.get raises
\* AttributeError, which lines 178-179 log: the future is left as it was.
Completion(m) ==
    IF "error" \in DOMAIN m
    THEN IF m.error = None THEN PendingFuture
         ELSE [state |-> "error", value |-> m.error]
    ELSE [state |-> "result", value |-> Get(m, "result")]

\* The pydantic model the caller builds from the response (lines 116, 231,
\* 246, 277, 292, 305, 323): its required fields must be there.  ping builds none.
RequiredFields(method) ==
    IF method = "initialize" THEN {"protocolVersion", "capabilities", "serverInfo"}
    ELSE IF method = "tools/list" THEN {"tools"}
    ELSE IF method = "tools/call" THEN {"content"}
    ELSE IF method = "resources/list" THEN {"resources"}
    ELSE IF method = "resources/read" THEN {"contents"}
    ELSE IF method = "prompts/list" THEN {"prompts"}
    ELSE IF method = "prompts/get" THEN {"messages"}
    ELSE {}

ResponseValid(method, response) ==
    \/ method = "ping"
    \/ response # None /\ RequiredFields(method) \subseteq DOMAIN response[1]

\* A caller that takes an error response for a result.
CallerOutcomeIgnoringError(method, future) ==
    IF future.state = "cancelled" THEN "cancelled"
    ELSE IF future.state = "error" THEN "returned"
    ELSE IF ResponseValid(method, future.value) THEN "returned" ELSE "raised"

\* How the caller of _send_request(method) leaves it once its future is done
\* (lines 202-207, and the caller's own lines after the await).
CallerOutcome(method, future) ==
    IF future.state = "cancelled" THEN "cancelled"
    ELSE IF future.state = "error"
         THEN IF method = "ping" THEN "returned" ELSE "raised"
    ELSE IF ResponseValid(method, future.value) THEN "returned" ELSE "raised"

\* _send_request, lines 184-199: allocate the id, register the future, send.
\* On a closed transport send raises and lines 204-207 pop the entry.
SendRequest(method, params) ==
    LET msg_id == cNextId
        raised == tClosed
    IN  /\ Len(cIssued) < MaxRequests
        /\ cNextId' = NextId(cNextId)
        /\ cIssued' = Append(cIssued, msg_id)
        /\ cFutures' = (msg_id :> PendingFuture) @@ cFutures
        /\ cPending' = IF raised THEN cPending \ {msg_id} ELSE cPending \cup {msg_id}
        /\ cCalls' = (msg_id :> [method |-> method,
                                 pc |-> IF raised THEN "raised" ELSE "waiting"])
                     @@ cCalls
        /\ c2s' = IF raised THEN c2s
                  ELSE Append(c2s, JSONRPCRequest(msg_id, method, params))

\* MCPClient.connect and _initialize up to the await of the response.
CConnect ==
    /\ cConnect = "idle"
    /\ cRunning' = TRUE
    /\ cProc' = "running"
    /\ SendRequest("initialize", InitializeParams(SupportedVersion))
    /\ cConnect' = IF tClosed THEN "failed" ELSE "connecting"
    /\ UNCHANGED <<s2c, svars, tvars, cInitialized, cRejected, cDisc, cAtDisconnect,
                   tClosed, tEof>>

\* A convenience operation that requires _initialized (lines 227-228, 237-238).
GuardedCall(method, params) ==
    /\ IF ~cInitialized
       THEN /\ cRejected' = cRejected \cup {method}
            /\ UNCHANGED <<c2s, cNextId, cPending, cFutures, cCalls, cIssued>>
       ELSE /\ SendRequest(method, params)
            /\ UNCHANGED cRejected
    /\ UNCHANGED <<s2c, svars, tvars, cRunning, cInitialized, cProc, cConnect, cDisc,
                   cAtDisconnect, tClosed, tEof>>

\* MCPClient.list_tools up to the await of the response.
CListTools ==
    /\ "tools/list" \notin cRejected
    /\ GuardedCall("tools/list", None)

\* MCPClient.call_tool up to the await of the response.
CCallTool ==
    /\ "tools/call" \notin cRejected
    /\ GuardedCall("tools/call", CallParams("echo", "ok"))

\* MCPClient.ping up to the await of the response: no _initialized check.
CPing ==
    /\ SendRequest("ping", None)
    /\ UNCHANGED <<s2c, svars, tvars, cRunning, cInitialized, cRejected, cProc, cConnect,
                   cDisc, cAtDisconnect, tClosed, tEof>>

\* MCPServerCapabilities(**capabilities).dict(), models.py 80-85: every field
\* of the model is a key of the dictionary, the ones the peer left out with
\* the value None.
CapabilityFields == {"tools", "resources", "prompts", "logging"}

CapabilitiesDict(capabilities) == [c \in CapabilityFields |-> Get(capabilities, c)]

\* self._server_capabilities: None until _initialize has parsed the response
\* (line 117), then the dictionary of the parsed capabilities.
cServerCapabilities ==
    LET done == {k \in DOMAIN cCalls : /\ cCalls[k].method = "initialize"
                                       /\ cCalls[k].pc \in {"returned", "raised"}
                                       /\ CallerOutcome("initialize", cFutures[k]) = "returned"}
    IN  IF done = {} THEN None
        ELSE Some(CapabilitiesDict((cFutures[CHOOSE k \in done : TRUE].value[1]).capabilities))

\* A convenience operation behind a capability test (lines 270-275, 283-288,
\* 298-303, 311-316): "capability not in self._server_capabilities" is a test
\* for the key.  Without the key the operation returns [] (missing = "empty")
\* or raises RuntimeError (missing = "raise"); with it the request is sent.
CapabilityCall(method, capability, params, missing) ==
    /\ IF ~cInitialized
       THEN /\ cRejected' = cRejected \cup {method}
            /\ UNCHANGED <<c2s, cNextId, cPending, cFutures, cCalls, cIssued>>
       ELSE IF capability \notin DOMAIN cServerCapabilities[1]
       THEN /\ cRejected' = IF missing = "raise" THEN cRejected \cup {method} ELSE cRejected
            /\ UNCHANGED <<c2s, cNextId, cPending, cFutures, cCalls, cIssued>>
       ELSE /\ SendRequest(method, params)
            /\ UNCHANGED cRejected
    /\ UNCHANGED <<s2c, svars, tvars, cRunning, cInitialized, cProc, cConnect, cDisc,
                   cAtDisconnect, tClosed, tEof>>

\* MCPClient.list_resources up to the await of the response.
CListResources ==
    /\ "resources/list" \notin cRejected
    /\ CapabilityCall("resources/list", "resources", None, "empty")

\* MCPClient.read_resource up to the await of the response.
CReadResource ==
    /\ "resources/read" \notin cRejected
    /\ CapabilityCall("resources/read", "resources", Some([uri |-> "u"]), "raise")

\* MCPClient.list_prompts up to the await of the response.
CListPrompts ==
    /\ "prompts/list" \notin cRejected
    /\ CapabilityCall("prompts/list", "prompts", None, "empty")

\* MCPClient.get_prompt up to the await of the response.
CGetPrompt ==
    /\ "prompts/get" \notin cRejected
    /\ CapabilityCall("prompts/get", "prompts",
                      Some([name |-> "p", arguments |-> None]), "raise")

\* The handlers an application registers: a coroutine function that returns,
\* one that raises an Exception, and a plain function, whose return value
\* "await" cannot wait for (TypeError).
ClientHandlers == {"returns", "raises", "plain"}

NotificationMethods == {"notifications/message", "notifications/progress"}

\* "await handler(params)", line 171: how the statement ends.
AwaitHandler(handler) == IF handler = "returns" THEN "returned" ELSE "raised"

\* MCPClient.on_notification, lines 217-221.
COnNotification(method, handler) ==
    /\ Cardinality({<<mm, i>> \in (DOMAIN cHandlers) \X (1..MaxHandlers) :
                        i \in DOMAIN cHandlers[mm]}) < MaxHandlers
    /\ cHandlers' = IF method \notin DOMAIN cHandlers
                    THEN (method :> <<handler>>) @@ cHandlers
                    ELSE [cHandlers EXCEPT ![method] = Append(@, handler)]
    /\ UNCHANGED <<c2s, s2c, svars, cvars, rvars, probe, kvars, iovars, ovars, cNotified,
                   cHandling>>

\* A loop that the first Exception of a handler ends.
RECURSIVE CallHandlersAborting(_, _)
CallHandlersAborting(handlers, params) ==
    IF handlers = <<>> THEN <<>>
    ELSE LET outcome == AwaitHandler(Head(handlers))
         IN  <<[handler |-> Head(handlers), params |-> params,
                logged |-> outcome = "raised"]>>
             \o (IF outcome = "raised" THEN <<>>
                 ELSE CallHandlersAborting(Tail(handlers), params))

\* The loop of lines 169-173 over the handlers of one method: each handler is
\* called, and an Exception it raises is caught and logged inside the loop.
RECURSIVE CallHandlers(_, _)
CallHandlers(handlers, params) ==
    IF handlers = <<>> THEN <<>>
    ELSE LET outcome == AwaitHandler(Head(handlers))
         IN  <<[handler |-> Head(handlers), params |-> params,
                logged |-> outcome = "raised"]>>
             \o CallHandlers(Tail(handlers), params)

\* _handle_message, lines 162-173: the calls made for a message that has a
\* method and no id.
Notify(m) ==
    LET params == IF "params" \in DOMAIN m THEN m.params ELSE Some(EmptyDict)
    IN  IF m.method \in DOMAIN cHandlers
        THEN LET calls == CallHandlers(cHandlers[m.method], params)
             IN  [i \in DOMAIN calls |-> [method |-> m.method] @@ calls[i]]
        ELSE <<>>

\* The notification the server sends when its tool list changes.
ListChanged == "notifications/tools/listChanged"

\* A handler an application registers for it: "await client.list_tools()".
COnListChanged ==
    /\ ListChanged \notin DOMAIN cHandlers
    /\ cHandlers' = (ListChanged :> <<"requests">>) @@ cHandlers
    /\ UNCHANGED <<c2s, s2c, svars, cvars, rvars, probe, kvars, iovars, ovars, cNotified,
                   cHandling>>

\* The message is a notification whose handler issues a request.
HandlerRequests(m) ==
    /\ "method" \in DOMAIN m /\ "id" \notin DOMAIN m
    /\ m.method \in DOMAIN cHandlers
    /\ cHandlers[m.method] = <<"requests">>

\* _process_messages awaits _handle_message (line 135), which awaits the
\* handler (line 171): while the handler awaits the future of its request,
\* the read loop is not in transport.receive().
ReadLoopInHandler == cHandling # None /\ cFutures[cHandling[1]].state = "pending"

\* _handle_message, lines 162-173, for such a notification: the handler runs
\* inside the read loop up to the await of its request's future
\* (_send_request, line 202).  Before the client is Ready list_tools raises
\* RuntimeError, which line 172 catches.
CHandlerRequests ==
    /\ cProc = "running"
    /\ ~ReadLoopInHandler
    /\ s2c # <<>>
    /\ HandlerRequests(Head(s2c))
    /\ s2c' = Tail(s2c)
    /\ IF ~cInitialized
       THEN /\ cNotified' = Append(cNotified,
                                   [method |-> Head(s2c).method, handler |-> "requests",
                                    params |-> Get(Head(s2c), "params"), logged |-> TRUE])
            /\ UNCHANGED <<c2s, cNextId, cPending, cFutures, cCalls, cIssued, cHandling>>
       ELSE /\ SendRequest("tools/list", None)
            /\ cHandling' = IF tClosed THEN cHandling ELSE Some(cNextId)
            /\ UNCHANGED cNotified
    /\ UNCHANGED <<svars, rvars, probe, kvars, iovars, ovars, cHandlers, cRunning, cInitialized,
                   cRejected, cProc, cConnect, cDisc, cAtDisconnect, tClosed, tEof>>

\* _process_messages, lines 130-135, with _handle_message: one message.
CHandleMessage ==
    /\ cProc = "running"
    /\ ~ReadLoopInHandler
    /\ s2c # <<>>
    /\ ~HandlerRequests(Head(s2c))
    /\ s2c' = Tail(s2c)
    /\ LET m == Head(s2c)
           k == MatchPending(m, cPending)
       IN  IF k # None
           THEN /\ cPending' = cPending \ {k[1]}
                /\ cFutures' = [cFutures EXCEPT ![k[1]] =
                                    IF @.state = "pending" THEN Completion(m) ELSE @]
                /\ UNCHANGED cNotified
           ELSE IF "method" \in DOMAIN m /\ "id" \notin DOMAIN m
           THEN /\ cNotified' = cNotified \o Notify(m)
                /\ UNCHANGED <<cPending, cFutures>>
           ELSE UNCHANGED <<cPending, cFutures, cNotified>>
    /\ UNCHANGED <<c2s, svars, rvars, probe, kvars, iovars, ovars, cHandlers, cHandling, cRunning, cInitialized, cNextId,
                   cCalls, cIssued, cRejected, cProc, cConnect, cDisc, cAtDisconnect,
                   tClosed, tEof>>

\* _process_messages, lines 131-132: receive() returned None, the loop ends.
CReceiveNone ==
    /\ cProc = "running"
    /\ s2c = <<>>
    /\ tEof
    /\ cProc' = "ended"
    /\ UNCHANGED <<c2s, s2c, svars, tvars, cRunning, cInitialized, cNextId, cPending,
                   cFutures, cCalls, cIssued, cRejected, cConnect, cDisc,
                   cAtDisconnect, tClosed, tEof>>

\* The caller of _send_request resumes once its future is done.  The caller
\* of initialize goes on with lines 116-124: it sends "initialized" and sets
\* _initialized.
CResume(k) ==
    /\ k \in DOMAIN cCalls
    /\ cCalls[k].pc = "waiting"
    /\ cFutures[k].state # "pending"
    /\ LET method == cCalls[k].method
           outcome == CallerOutcome(method, cFutures[k])
           connects == method = "initialize" /\ outcome = "returned"
       IN  /\ cCalls' = [cCalls EXCEPT ![k].pc =
                            IF connects /\ tClosed THEN "raised" ELSE outcome]
           /\ IF method # "initialize" THEN UNCHANGED <<c2s, cInitialized, cConnect>>
              ELSE IF connects /\ ~tClosed
              THEN /\ c2s' = Append(c2s, JSONRPCNotification("initialized",
                                                              Some(EmptyDict)))
                   /\ cInitialized' = TRUE
                   /\ cConnect' = "ready"
              ELSE /\ cConnect' = IF outcome = "cancelled" THEN "cancelled" ELSE "failed"
                   /\ UNCHANGED <<c2s, cInitialized>>
    /\ UNCHANGED <<s2c, svars, tvars, cRunning, cNextId, cPending, cFutures, cIssued,
                   cRejected, cProc, cDisc, cAtDisconnect, tClosed, tEof>>

\* disconnect, lines 84-90: cancel the futures still registered and not done,
\* close the transport.
DisconnectFinish ==
    /\ cFutures' = [k \in DOMAIN cFutures |->
                       IF k \in cPending /\ cFutures[k].state = "pending"
                       THEN CancelledFuture ELSE cFutures[k]]
    /\ tClosed' = TRUE
    /\ cDisc' = "done"

\* disconnect, lines 74-82: _running = False and the read loop is cancelled.
\* Awaiting a task that is not done suspends the caller; otherwise disconnect
\* runs on to its end.
CDisconnect ==
    /\ cDisc = "idle"
    /\ cRunning' = FALSE
    /\ cAtDisconnect' = {k \in DOMAIN cCalls : cCalls[k].pc = "waiting"}
    /\ IF cProc = "running"
       THEN /\ cProc' = "cancelling"
            /\ cDisc' = "awaiting"
            /\ UNCHANGED <<cFutures, tClosed>>
       ELSE /\ DisconnectFinish
            /\ UNCHANGED cProc
    /\ UNCHANGED <<c2s, s2c, svars, tvars, cInitialized, cNextId, cPending, cCalls,
                   cIssued, cRejected, cConnect, tEof>>

\* The read loop, suspended in receive(), gets the CancelledError.
CProcessCancelled ==
    /\ cProc = "cancelling"
    /\ cProc' = "cancelled"
    /\ UNCHANGED <<c2s, s2c, svars, tvars, cRunning, cInitialized, cNextId, cPending,
                   cFutures, cCalls, cIssued, cRejected, cConnect, cDisc,
                   cAtDisconnect, tClosed, tEof>>

\* disconnect resumes after the read loop has ended.
CDisconnectResume ==
    /\ cDisc = "awaiting"
    /\ cProc = "cancelled"
    /\ DisconnectFinish
    /\ UNCHANGED <<c2s, s2c, svars, tvars, cRunning, cInitialized, cNextId, cPending,
                   cCalls, cIssued, cRejected, cProc, cConnect, cAtDisconnect, tEof>>

\* MCPClient.__init__, lines 35-53.
CInit ==
    /\ cRunning = FALSE
    /\ cInitialized = FALSE
    /\ cNextId = 1
    /\ cPending = {}
    /\ cFutures = <<>>
    /\ cCalls = <<>>
    /\ cIssued = <<>>
    /\ cRejected = {}
    /\ cProc = "none"
    /\ cConnect = "idle"
    /\ cDisc = "idle"
    /\ cAtDisconnect = {}
    /\ tClosed = FALSE
    /\ tEof = FALSE

----------------------------------------------------------------------------
(* The registry the server is constructed with: three tools, an alias "sh"   *)
(* of shell, and an alias "shell" of dyn, which is also the name of a tool   *)
(* (ToolRegistry.register does not compare aliases with tool names).         *)

RegisteredOrder == <<"echo", "shell", "dyn">>
RegisteredAliases == [sh |-> "shell", shell |-> "dyn"]

SInit ==
    /\ sRunning = FALSE
    /\ sInitialized = FALSE
    /\ sClientInfo = None
    /\ sLevel \in Levels
    /\ sToolOrder = RegisteredOrder
    /\ sAliases = RegisteredAliases
    /\ sTasks = <<>>
    /\ sLogLevel = "notset"
    /\ nInjected = 0

ServerInit == c2s = <<>> /\ s2c = <<>> /\ SInit /\ CInit /\ TInit

ServerNext ==
    \/ SStart
    \/ SReceive
    \/ PeerSends
    \/ \E i \in DOMAIN sTasks : SHandleMissingMethod(i)
    \/ \E i \in DOMAIN sTasks : SHandleUnknownMethod(i)
    \/ \E i \in DOMAIN sTasks : SHandleInitialize(i)
    \/ \E i \in DOMAIN sTasks : SHandleInitialized(i)
    \/ \E i \in DOMAIN sTasks : SRespondInitialized(i)
    \/ \E i \in DOMAIN sTasks : SHandleListTools(i)
    \/ \E i \in DOMAIN sTasks : SHandleCallTool(i)
    \/ \E i \in DOMAIN sTasks : SExecTool(i)
    \/ \E i \in DOMAIN sTasks : SHandleSetLoggingLevel(i)
    \/ \E i \in DOMAIN sTasks : SHandlePing(i)

\* The server with an arbitrary peer.
SpecServer == ServerInit /\ [][ServerNext]_vars

\* MCPServer.stop, lines 78-88: _running = False, every task of _tasks is
\* cancelled, and the caller waits in gather when there was one; without a
\* task it goes on to transport.close().  A cancelled task is at an await or
\* has not started: it ends there and does nothing more.
SStopBegins ==
    /\ sStop = "idle"
    /\ sRunning
    /\ sRunning' = FALSE
    /\ sTasks' = [i \in DOMAIN sTasks |->
                      IF sTasks[i].pc = "done" THEN sTasks[i]
                      ELSE [sTasks[i] EXCEPT !.pc = "cancelled"]]
    /\ sStop' = IF \E i \in DOMAIN sTasks : sTasks[i].pc # "done"
                THEN "gathering" ELSE "closing"
    /\ UNCHANGED <<c2s, s2c, sInitialized, sClientInfo, sConfig, sLogLevel, nInjected,
                   cvars, rvars, probe, nvars, iovars, ovars, sBusy, sLoopEnded, sLate>>

\* stop, lines 87-91: gather returns and transport.close() is entered, which
\* sets the transport's _closed first.
SStopGathered ==
    /\ sStop = "gathering"
    /\ sStop' = "closing"
    /\ UNCHANGED <<c2s, s2c, svars, cvars, rvars, probe, nvars, iovars, ovars, sBusy, sLoopEnded, sLate>>

\* stop, line 91: transport.close() returns, and stop() with it.
SStopCloses ==
    /\ sStop = "closing"
    /\ sStop' = "done"
    /\ UNCHANGED <<c2s, s2c, svars, cvars, rvars, probe, nvars, iovars, ovars, sBusy, sLoopEnded, sLate>>

\* The transport is open until close() is entered.
TransportOpen == sStop \in {"idle", "gathering"}

\* _process_messages, lines 94-103, after stop() has set _running to False:
\* the loop tested _running before it awaited receive(), so the message that
\* arrives while stop() waits in gather is handed to a new task; the test of
\* line 94 then ends the loop.
SReceiveLast ==
    /\ sStop = "gathering"
    /\ ~sLoopEnded
    /\ c2s # <<>>
    /\ c2s' = Tail(c2s)
    /\ sTasks' = Append(sTasks, NewTask(Head(c2s)))
    /\ sLoopEnded' = TRUE
    /\ UNCHANGED <<s2c, sRunning, sInitialized, sClientInfo, sConfig, sLogLevel, nInjected,
                   cvars, rvars, probe, nvars, iovars, ovars, sBusy, sStop, sLate>>

\* _handle_message for a ping on the closed transport: _send_response raises
\* "Transport is closed" (transport.py 94-95), line 153 catches it and
\* _send_error raises again, which line 160 logs.
SPingOnClosed(i) ==
    /\ ~TransportOpen
    /\ Starts(i, "ping")
    /\ sTasks' = [sTasks EXCEPT ![i].pc = "done", ![i].initAtStart = sInitialized]
    /\ sLate' = sLate \cup {[task |-> i, stop |-> sStop]}
    /\ UNCHANGED <<c2s, s2c, sRunning, sInitialized, sClientInfo, sConfig, sLogLevel,
                   nInjected, cvars, rvars, probe, nvars, iovars, ovars, sBusy, sStop, sLoopEnded>>

\* A peer that pings.
PeerPings ==
    /\ nInjected < MaxMsgs + 1
    /\ c2s' = Append(c2s, JSONRPCRequest(nInjected + 1, "ping", None))
    /\ nInjected' = nInjected + 1
    /\ UNCHANGED <<s2c, sRunning, sInitialized, sClientInfo, sConfig, cvars, tvars, sTasks,
                   sLogLevel>>

PingsOnOpen(i) == TransportOpen /\ SHandlePing(i)

\* start() is called once, on the new server.
StartsOnce == sStop = "idle" /\ SStart

StopNext ==
    \/ StartsOnce
    \/ PeerPings
    \/ SReceive
    \/ \E i \in DOMAIN sTasks : PingsOnOpen(i)
    \/ SStopBegins
    \/ SStopGathered
    \/ SStopCloses
    \/ SReceiveLast
    \/ \E i \in DOMAIN sTasks : SPingOnClosed(i)

\* The server, stopped at any moment, with a peer that pings.
SpecStop == ServerInit /\ [][StopNext]_vars

\* A peer that initializes, calls a tool and pings.
PeerCallsAndPings ==
    /\ nInjected < MaxMsgs + 1
    /\ \E c \in {<<"initialize", InitializeParams(SupportedVersion)>>,
                  <<"tools/call", CallParams("echo", "ok")>>,
                  <<"ping", None>>} :
           c2s' = Append(c2s, JSONRPCRequest(nInjected + 1, c[1], c[2]))
    /\ nInjected' = nInjected + 1
    /\ UNCHANGED <<s2c, sRunning, sInitialized, sClientInfo, sConfig, cvars, tvars, sTasks,
                   sLogLevel>>

\* A step of a coroutine of the server: the event loop resumes it only while
\* its thread is not inside a tool.
LoopReceives == sBusy = None /\ SReceive
LoopInitializes(i) == sBusy = None /\ SHandleInitialize(i)
LoopChecksCall(i) == sBusy = None /\ SHandleCallTool(i)
LoopPings(i) == sBusy = None /\ SHandlePing(i)

BlockingNext ==
    \/ SStart
    \/ PeerCallsAndPings
    \/ LoopReceives
    \/ \E i \in DOMAIN sTasks : LoopInitializes(i)
    \/ \E i \in DOMAIN sTasks : LoopChecksCall(i)
    \/ \E i \in DOMAIN sTasks : LoopPings(i)
    \/ \E i \in DOMAIN sTasks : SToolCalled(i)
    \/ \E i \in DOMAIN sTasks : SToolReturned(i)

\* The event loop resumes every coroutine that is ready; how long a tool
\* takes to return is up to the tool.
SpecBlockingFair ==
    /\ ServerInit
    /\ [][BlockingNext]_vars
    /\ WF_vars(SStart)
    /\ WF_vars(LoopReceives)
    /\ WF_vars(\E i \in DOMAIN sTasks : LoopInitializes(i))
    /\ WF_vars(\E i \in DOMAIN sTasks : LoopChecksCall(i))
    /\ WF_vars(\E i \in DOMAIN sTasks : LoopPings(i))
    /\ WF_vars(\E i \in DOMAIN sTasks : SToolCalled(i))

----------------------------------------------------------------------------
(* The client's peer: any JSON-RPC server. *)

\* The answers the peer may write to the request k: a success response, an
\* error response, and a response as MCPServer._send_response writes it, with
\* a result and a null "error" member.
PeerResponses(k) ==
    {[jsonrpc |-> "2.0", id |-> Some(k), result |-> Some(InitializeResponse)],
     [jsonrpc |-> "2.0", id |-> Some(k),
      error |-> Some([code |-> INTERNAL_ERROR, message |-> "failed", data |-> None])],
     SendResponse(Some(k), Some(EmptyDict))}

PeerResponds ==
    /\ nInjected < MaxResponses
    /\ ~tEof
    /\ \E m \in UNION {PeerResponses(k) : k \in 1..MaxRequests}
                \cup {SendNotification("notifications/message", Some(EmptyDict))} :
           s2c' = Append(s2c, m)
    /\ nInjected' = nInjected + 1
    /\ UNCHANGED <<c2s, sRunning, sInitialized, sClientInfo, sConfig, sTasks,
                   sLogLevel, cvars, tvars>>

\* The peer closes the connection: receive() returns None from then on.
PeerCloses ==
    /\ ~tEof
    /\ tEof' = TRUE
    /\ UNCHANGED <<c2s, s2c, svars, tvars, cRunning, cInitialized, cNextId, cPending,
                   cFutures, cCalls, cIssued, cRejected, cProc, cConnect, cDisc,
                   cAtDisconnect, tClosed>>

ClientInit == c2s = <<>> /\ s2c = <<>> /\ SInit /\ sLevel = "safe" /\ CInit /\ TInit

ClientNext ==
    \/ CConnect
    \/ CListTools
    \/ CCallTool
    \/ CPing
    \/ CHandleMessage
    \/ CReceiveNone
    \/ \E k \in DOMAIN cCalls : CResume(k)
    \/ CDisconnect
    \/ CProcessCancelled
    \/ CDisconnectResume
    \/ PeerResponds
    \/ PeerCloses

\* The client with an arbitrary peer.
SpecClient == ClientInit /\ [][ClientNext]_vars

NotificationsNext ==
    \/ CConnect
    \/ \E method \in NotificationMethods, handler \in ClientHandlers :
           COnNotification(method, handler)
    \/ PeerResponds
    \/ CHandleMessage
    \/ \E k \in DOMAIN cCalls : CResume(k)

\* The client's read loop with the handlers an application has registered.
SpecNotifications == ClientInit /\ [][NotificationsNext]_vars

\* The server peer: it answers a request the client has sent, and it
\* announces that its tool list changed.
PeerAnswers ==
    /\ nInjected < MaxResponses + 1
    /\ \E i \in DOMAIN c2s :
           /\ "id" \in DOMAIN c2s[i]
           /\ \E m \in PeerResponses(c2s[i].id[1]) : s2c' = Append(s2c, m)
    /\ nInjected' = nInjected + 1
    /\ UNCHANGED <<c2s, sRunning, sInitialized, sClientInfo, sConfig, sTasks,
                   sLogLevel, cvars, tvars>>

PeerNotifiesListChanged ==
    /\ nInjected < MaxResponses + 1
    /\ s2c' = Append(s2c, SendNotification(ListChanged, Some(EmptyDict)))
    /\ nInjected' = nInjected + 1
    /\ UNCHANGED <<c2s, sRunning, sInitialized, sClientInfo, sConfig, sTasks,
                   sLogLevel, cvars, tvars>>

\* The steps the client's event loop takes by itself.
HandlerLoopNext ==
    \/ CHandleMessage
    \/ CHandlerRequests
    \/ \E k \in DOMAIN cCalls : CResume(k)

HandlerNext ==
    \/ CConnect
    \/ COnListChanged
    \/ PeerAnswers
    \/ PeerNotifiesListChanged
    \/ HandlerLoopNext

\* The client with a handler that issues a request; the event loop runs
\* every coroutine that can run.
SpecHandlerFair == ClientInit /\ [][HandlerNext]_vars /\ WF_vars(HandlerLoopNext)

\* The capability sets a peer may offer in its answer to initialize.
OfferedCapabilities ==
    {[logging |-> Some("empty")],
     [tools |-> Some("listChanged"), logging |-> Some("empty")],
     [tools |-> Some("listChanged"), resources |-> Some("subscribe")],
     InitializeResponse.capabilities,
     [tools |-> Some("listChanged"), resources |-> Some("subscribe"),
      prompts |-> Some("listChanged"), logging |-> Some("empty")]}

\* The peer answers the initialize request it has received.
PeerNegotiates ==
    /\ nInjected = 0
    /\ ~tEof
    /\ \E i \in DOMAIN c2s, capabilities \in OfferedCapabilities :
           /\ c2s[i].method = "initialize"
           /\ s2c' = Append(s2c, [jsonrpc |-> "2.0", id |-> c2s[i].id,
                                  result |-> Some([InitializeResponse EXCEPT
                                                       !.capabilities = capabilities])])
    /\ nInjected' = nInjected + 1
    /\ UNCHANGED <<c2s, sRunning, sInitialized, sClientInfo, sConfig, sTasks,
                   sLogLevel, cvars, tvars>>

CapabilitiesNext ==
    \/ CConnect
    \/ PeerNegotiates
    \/ CHandleMessage
    \/ \E k \in DOMAIN cCalls : CResume(k)
    \/ CListTools
    \/ CCallTool
    \/ CListResources
    \/ CReadResource
    \/ CListPrompts
    \/ CGetPrompt

\* The client's convenience operations after a negotiation with a peer.
SpecCapabilities == ClientInit /\ [][CapabilitiesNext]_vars

----------------------------------------------------------------------------
(* The client connected to the server: what one writes the other reads, in  *)
(* order and without loss, and nothing else writes.  The transport pair     *)
(* stays open until the client closes it.  The server's steps are those for *)
(* the requests this client sends before it is initialized, initialize and  *)
(* ping; LinkSendsOnlyInitializeAndPing states that it sends no others.     *)

LinkInit == c2s = <<>> /\ s2c = <<>> /\ SInit /\ CInit /\ TInit

\* The steps the two programs take by themselves once connect() is called.
LinkProtocolNext ==
    \/ SStart
    \/ SReceive
    \/ \E i \in DOMAIN sTasks : SHandleInitialize(i)
    \/ \E i \in DOMAIN sTasks : SHandlePing(i)
    \/ CConnect
    \/ CHandleMessage
    \/ \E k \in DOMAIN cCalls : CResume(k)
    \/ CProcessCancelled
    \/ CDisconnectResume

\* The calls the application makes when it chooses to.
LinkApplicationNext ==
    \/ CListTools
    \/ CCallTool
    \/ CPing
    \/ CDisconnect

LinkNext == LinkProtocolNext \/ LinkApplicationNext

SpecLink == LinkInit /\ [][LinkNext]_vars

\* The event loops run every task that can run; the application is not
\* obliged to make any call other than connect().
SpecLinkFair == SpecLink /\ WF_vars(LinkProtocolNext)

\* The registry alone: operations in any order, MaxOps of them.
RegistryInit == c2s = <<>> /\ s2c = <<>> /\ SInit /\ sLevel = "safe" /\ CInit /\ TInit
RegistryNext == RRegister \/ RUnregister \/ RExecute \/ RSetSecurityLevel
SpecRegistry == RegistryInit /\ [][RegistryNext]_vars

\* The registry with execute_async in the place of execute.
RegistryAsyncNext == RRegister \/ RExecuteAsync \/ RSetSecurityLevel
SpecRegistryAsync == RegistryInit /\ [][RegistryAsyncNext]_vars

\* The registry of tools/registry.py under any sequence of register and
\* unregister calls.
OldRegistryNext == ORegister \/ OUnregister
SpecOldRegistry == RegistryInit /\ [][OldRegistryNext]_vars

\* The pure functions, applied to every input of the bounded sets.
FunctionsInit == c2s = <<>> /\ s2c = <<>> /\ SInit /\ sLevel = "safe" /\ CInit /\ TInit
FunctionsNext ==
    \/ PCheckSecurity \/ PToolResult \/ PRoundTrip \/ PToolResultToMcp
    \/ PMcpResponseToToolResult \/ PExecuteSandboxed \/ PExecute
SpecFunctions == FunctionsInit /\ [][FunctionsNext]_vars

----------------------------------------------------------------------------
(* The transports (src/src/mcp/transport.py): the reader task, the queue,   *)
(* receive() and close() of StdioTransport and WebSocketTransport.          *)

\* What the input stream carries: a frame that is a JSON text, one that is
\* not, and for stdin a line that is not UTF-8.  A message is named by the
\* position of its frame.
FrameKinds(kind) ==
    IF kind = "stdio" THEN {"json", "malformed", "undecodable"} ELSE {"json", "malformed"}

Streams(kind) == UNION {[1..n -> FrameKinds(kind)] : n \in 0..MaxFrames}

\* start(), lines 46-68 and 225-231: the reader task is created.
TStart ==
    /\ ioReader = "none"
    /\ ~ioClosed
    /\ ioReader' = "reading"
    /\ UNCHANGED <<c2s, s2c, svars, cvars, rvars, probe, nvars, kvars, ovars, ioKind, ioStream,
                   ioPos, ioQueue, ioClosed, ioReceive, ioReturned>>

\* One turn of StdioTransport._read_loop, lines 72-90: "" is the end of the
\* input; json.JSONDecodeError is logged and the loop goes on; any other
\* exception, the UnicodeDecodeError of line.decode() among them, ends it.
StdioReadLoop(stream, pos) ==
    IF pos > Len(stream) THEN [reader |-> "ended", put |-> None]
    ELSE IF stream[pos] = "json" THEN [reader |-> "reading", put |-> Some(pos)]
    ELSE IF stream[pos] = "malformed" THEN [reader |-> "reading", put |-> None]
    ELSE [reader |-> "ended", put |-> None]

\* One turn of WebSocketTransport._read_loop, lines 235-253: the module does
\* not import aiohttp (start() imports it into its own scope, line 227), so
\* "aiohttp.WSMsgType" at line 239 raises NameError for whatever message
\* was received, and lines 251-253 end the loop.
WebSocketReadLoop(stream, pos) == [reader |-> "ended", put |-> None]

ReadLoop(kind, stream, pos) ==
    IF kind = "stdio" THEN StdioReadLoop(stream, pos) ELSE WebSocketReadLoop(stream, pos)

\* The reader task reads the next frame, or the end of the input.
TReadLoop ==
    /\ ioReader = "reading"
    /\ LET turn == ReadLoop(ioKind, ioStream, ioPos)
       IN  /\ ioReader' = turn.reader
           /\ ioQueue' = IF turn.put = None THEN ioQueue ELSE Append(ioQueue, turn.put[1])
    /\ ioPos' = IF ioPos > Len(ioStream) THEN ioPos ELSE ioPos + 1
    /\ UNCHANGED <<c2s, s2c, svars, cvars, rvars, probe, nvars, kvars, ovars, ioKind, ioStream,
                   ioClosed, ioReceive, ioReturned>>

\* receive(), lines 106-115 and 265-274, up to its return or its wait in
\* _message_queue.get(): None when _closed is set, the head of the queue when
\* there is one.
TReceive ==
    /\ ioReceive = "idle"
    /\ Len(ioReturned) < MaxReceives
    /\ IF ioClosed
       THEN /\ ioReturned' = Append(ioReturned, None)
            /\ UNCHANGED <<ioQueue, ioReceive>>
       ELSE IF ioQueue # <<>>
       THEN /\ ioReturned' = Append(ioReturned, Some(Head(ioQueue)))
            /\ ioQueue' = Tail(ioQueue)
            /\ UNCHANGED ioReceive
       ELSE /\ ioReceive' = "waiting"
            /\ UNCHANGED <<ioQueue, ioReturned>>
    /\ UNCHANGED <<c2s, s2c, svars, cvars, rvars, probe, nvars, kvars, ovars, ioKind, ioStream,
                   ioPos, ioClosed, ioReader>>

\* The waiting receive() resumes: only a message put in the queue wakes
\* _message_queue.get().
TReceiveResumes ==
    /\ ioReceive = "waiting"
    /\ ioQueue # <<>>
    /\ ioReturned' = Append(ioReturned, Some(Head(ioQueue)))
    /\ ioQueue' = Tail(ioQueue)
    /\ ioReceive' = "idle"
    /\ UNCHANGED <<c2s, s2c, svars, cvars, rvars, probe, nvars, kvars, ovars, ioKind, ioStream,
                   ioPos, ioClosed, ioReader>>

\* close(), lines 117-130 and 276-289: _closed is set and the reader task is
\* cancelled.  On a closed transport the same lines change nothing.
TClose ==
    /\ ioClosed' = TRUE
    /\ ioReader' = IF ioReader = "none" THEN "none" ELSE "ended"
    /\ UNCHANGED <<c2s, s2c, svars, cvars, rvars, probe, nvars, kvars, ovars, ioKind, ioStream,
                   ioPos, ioQueue, ioReceive, ioReturned>>

TransportInit ==
    /\ c2s = <<>> /\ s2c = <<>> /\ SInit /\ sLevel = "safe" /\ CInit
    /\ RInit /\ probe = [op |-> "none"] /\ NInit /\ KInit /\ OInit
    /\ \E kind \in {"stdio", "websocket"} : \E stream \in Streams(kind) : IoInit(kind, stream)

TransportNext == TStart \/ TReadLoop \/ TReceive \/ TReceiveResumes \/ TClose

\* A transport with any input stream, read and closed at any moment.
SpecTransport == TransportInit /\ [][TransportNext]_vars

\* The event loop runs the reader task and a receive() that a put has woken;
\* the input stream ends after its last frame.
SpecTransportFair ==
    /\ SpecTransport
    /\ WF_vars(TStart)
    /\ WF_vars(TReadLoop)
    /\ WF_vars(TReceiveResumes)

----------------------------------------------------------------------------
(* Properties of the server. *)

\* The responses (messages with no method) task i has sent.
Responses(i) == SelectSeq(sTasks[i].sent, IsResponse)

IsErrorResponse(m, code) ==
    /\ IsResponse(m)
    /\ m.error # None
    /\ m.error[1].code = code

IsRequestTask(i, methods) ==
    /\ "method" \in DOMAIN sTasks[i].msg
    /\ sTasks[i].msg.method \in methods
    /\ MsgId(sTasks[i].msg) # None

\* C1 (as stated): a finished dispatch task has sent exactly one response,
\* tagged with the request's id, when its message carries an id, and no
\* response when its message carries none.
C1_OneResponsePerId ==
    \A i \in DOMAIN sTasks :
        LET m == sTasks[i].msg
            r == Responses(i)
        IN  /\ Len(r) <= 1
            /\ \A j \in DOMAIN r : r[j].id = MsgId(m)
            /\ (sTasks[i].pc = "done" /\ MsgId(m) # None) => Len(r) = 1
            /\ MsgId(m) = None => Len(r) = 0

\* C1 (amended): under every interleaving of the dispatch tasks, a task never
\* sends two responses and every response carries the id of the task's message;
\* a finished task has sent exactly one response when its message carries an id,
\* none when its message has a method and no id, and exactly one
\* INVALID_REQUEST error with a null id when its message has neither.
C1_OneResponsePerRequest ==
    \A i \in DOMAIN sTasks :
        LET m == sTasks[i].msg
            r == Responses(i)
        IN  /\ Len(r) <= 1
            /\ \A j \in DOMAIN r : r[j].id = MsgId(m)
            /\ (sTasks[i].pc = "done" /\ MsgId(m) # None) => Len(r) = 1
            /\ (MsgId(m) = None /\ "method" \in DOMAIN m) => Len(r) = 0
            /\ (sTasks[i].pc = "done" /\ MsgId(m) = None /\ "method" \notin DOMAIN m)
                   => Len(r) = 1 /\ IsErrorResponse(r[1], INVALID_REQUEST)

\* Two requests were answered in the reverse of the order they were received
\* in, one of them by a handler that failed.
C1_Witness ==
    \E i, j \in DOMAIN sTasks :
        /\ i < j
        /\ sTasks[i].pc = "done" /\ sTasks[j].pc = "done"
        /\ MsgId(sTasks[i].msg) # None /\ MsgId(sTasks[j].msg) # None
        /\ Responses(j)[1].error # None
        /\ \E a, b \in DOMAIN s2c :
              a < b /\ s2c[a] = Responses(j)[1] /\ s2c[b] = Responses(i)[1]

\* C6 (as stated): every response the server has put on the transport holds
\* exactly one of the members result and error.
C6_ResultXorError ==
    \A k \in DOMAIN s2c :
        IsResponse(s2c[k]) =>
            (("result" \in DOMAIN s2c[k]) # ("error" \in DOMAIN s2c[k]))

InitializeTask(i) == IsRequestTask(i, {"initialize"}) /\ sTasks[i].pc = "done"

C8_NotInitializedRejectsAll ==
    /\ \A i \in DOMAIN sTasks :
          (/\ IsRequestTask(i, {"tools/list", "tools/call", "logging/setLevel", "ping"})
           /\ sTasks[i].pc = "done"
           /\ ~sTasks[i].initAtStart)
          => /\ Len(sTasks[i].sent) = 1
             /\ IsErrorResponse(sTasks[i].sent[1], INVALID_REQUEST)
             /\ sTasks[i].invoked = None
    /\ ~sInitialized => sLogLevel = "notset"

CallTask(i) ==
    /\ "method" \in DOMAIN sTasks[i].msg
    /\ sTasks[i].msg.method = "tools/call"
    /\ sTasks[i].pc # "start"
    /\ sTasks[i].initAtStart
    /\ CallToolRequestValid(ParamsOf(sTasks[i].msg))

Resolved(i) == RegistryGet(sToolOrder, sAliases, ParamsOf(sTasks[i].msg)[1].name)

\* C9: on an Initialized server, a tools/call whose name resolves to a
\* registered tool that the security level rejects runs no tool, sends no
\* notification and, as a request, is answered by one error of code -32005; a
\* name that resolves to nothing likewise, with code -32002.  No task ever
\* runs a tool the level rejects.
C9_CallRejectedBeforeExecution ==
    \A i \in DOMAIN sTasks :
        /\ sTasks[i].invoked # None => ValidateToolSafety(sTasks[i].invoked[1], sLevel)
        /\ (CallTask(i) /\ Resolved(i) = None) =>
              /\ sTasks[i].pc = "done"
              /\ sTasks[i].invoked = None
              /\ IF MsgId(sTasks[i].msg) = None THEN sTasks[i].sent = <<>>
                 ELSE /\ Len(sTasks[i].sent) = 1
                      /\ IsErrorResponse(sTasks[i].sent[1], TOOL_NOT_FOUND)
        /\ (CallTask(i) /\ Resolved(i) # None
               /\ ~ValidateToolSafety(Resolved(i)[1], sLevel)) =>
              /\ sTasks[i].pc = "done"
              /\ sTasks[i].invoked = None
              /\ IF MsgId(sTasks[i].msg) = None THEN sTasks[i].sent = <<>>
                 ELSE /\ Len(sTasks[i].sent) = 1
                      /\ IsErrorResponse(sTasks[i].sent[1], UNAUTHORIZED)

\* A call of a registered tool was refused as Unauthorized on an Initialized
\* server.
C9_Witness ==
    \E i \in DOMAIN sTasks :
        /\ CallTask(i)
        /\ MsgId(sTasks[i].msg) # None
        /\ Resolved(i) # None
        /\ sTasks[i].pc = "done"
        /\ IsErrorResponse(sTasks[i].sent[1], UNAUTHORIZED)

ListTask(i) ==
    /\ IsRequestTask(i, {"tools/list"})
    /\ sTasks[i].pc = "done"
    /\ sTasks[i].initAtStart

\* The tool names in the result of the tools/list request of task i.
Listed(i) ==
    LET tools == sTasks[i].sent[1].result[1].tools
    IN  {tools[k].name : k \in DOMAIN tools}

\* The names whose tools/call C10 compares the list with.
CallNames == {"echo", "shell", "dyn", "sh", "ghost"}

\* C10: the result of tools/list on an Initialized server names, once each,
\* exactly the registered tools that pass validation at the security level; a
\* tool that a tools/call resolves to and refuses as Unauthorized is not listed.
C10_ListIsAllowedTools ==
    \A i \in DOMAIN sTasks :
        ListTask(i) =>
            /\ Len(sTasks[i].sent) = 1
            /\ sTasks[i].sent[1].error = None
            /\ sTasks[i].sent[1].result # None
            /\ Listed(i) = {t \in Range(sToolOrder) : ValidateToolSafety(t, sLevel)}
            /\ Len(sTasks[i].sent[1].result[1].tools) = Cardinality(Listed(i))
            /\ \A n \in CallNames :
                  LET c == CallToolChecks(TRUE, sToolOrder, sAliases, sLevel,
                                          CallParams(n, "ok"))
                  IN  (c.kind = "mcperror" /\ c.code = UNAUTHORIZED)
                          => RegistryGet(sToolOrder, sAliases, n)[1] \notin Listed(i)

\* A list was returned that holds some registered tools and leaves others out.
C10_Witness ==
    \E i \in DOMAIN sTasks :
        /\ ListTask(i)
        /\ Listed(i) # {}
        /\ Listed(i) # Range(sToolOrder)

----------------------------------------------------------------------------
(* Properties of the client. *)

\* The ids in cIssued are strictly increasing.
StrictlyIncreasing(ids) == \A i, j \in DOMAIN ids : i < j => ids[i] < ids[j]

\* The future of request k is completed with a result or an error in this step.
Completes(k) ==
    /\ k \in DOMAIN cFutures
    /\ cFutures[k].state = "pending"
    /\ cFutures'[k].state \in {"result", "error"}

\* C2: the ids the client issues are strictly increasing (so none is used
\* twice), and whenever the future of a request k is completed with a result
\* or an error, the step is the read loop taking a message whose id is k, and
\* the future holds that message's result or error; whatever the order of the
\* responses, no other request's future is completed by the message.
C2_IdsIncreaseAndCorrelate ==
    /\ [](StrictlyIncreasing(cIssued) /\ (\A i \in DOMAIN cIssued : cIssued[i] < cNextId))
    /\ [][\A k \in 1..MaxRequests :
            Completes(k) =>
                /\ s2c # <<>>
                /\ s2c' = Tail(s2c)
                /\ Get(Head(s2c), "id") = Some(k)
                /\ cFutures'[k] = Completion(Head(s2c))
                /\ \A j \in DOMAIN cFutures : j # k => cFutures'[j] = cFutures[j]]_vars

\* C2 witness: two requests are outstanding and the answer to the later one
\* has arrived first: it has completed the later request's future and its
\* caller has returned, while the earlier request is still waiting.
C2_Witness ==
    \E j, k \in DOMAIN cFutures :
        /\ j < k
        /\ j \in cPending
        /\ cFutures[j].state = "pending"
        /\ cCalls[j].pc = "waiting"
        /\ cFutures[k].state = "result"
        /\ cCalls[k].pc = "returned"

\* C3: once disconnect() has returned, the future of every request whose
\* caller was waiting when disconnect() was called is done.
C3_DisconnectCompletesPending ==
    cDisc = "done" => \A k \in cAtDisconnect : cFutures[k].state # "pending"

\* C4: once the read loop has ended because receive() returned None, no
\* caller is left waiting on a future that is not done.
C4_ReadLoopEndRejectsPending ==
    cProc = "ended" =>
        \A k \in DOMAIN cCalls :
            ~(cCalls[k].pc = "waiting" /\ cFutures[k].state = "pending")

----------------------------------------------------------------------------
(* Properties of the client connected to the server. *)

\* Every message the client has put on the transport is an initialize or a
\* ping request.
LinkSendsOnlyInitializeAndPing ==
    /\ \A i \in DOMAIN c2s : c2s[i].method \in {"initialize", "ping"}
    /\ \A i \in DOMAIN sTasks : sTasks[i].msg.method \in {"initialize", "ping"}

\* C5: unless the application disconnects, connect() eventually completes
\* with the client initialized and the server initialized.
C5_ConnectCompletes ==
    <>(cDisc # "idle" \/ (cConnect = "ready" /\ cInitialized /\ sInitialized))


----------------------------------------------------------------------------
(* Properties of the tool layer. *)

\* A registry operation was just made.
RegistryStep(op) == rOps' = rOps + 1 /\ rLast'.op = op

\* C11: when a tool of the same name is registered, or one of the given aliases is in use,
\* register without replace raises a ToolError; with replace=true and a tool of the same
\* name registered, register succeeds and get(name) returns the new instance afterwards.
C11_RegisterUniqueness ==
    [][RegistryStep("register") =>
          LET name == rLast'.name
              inUse == \E al \in Range(rLast'.aliases) : al \in DOMAIN rAliases
          IN  /\ (~rLast'.replace /\ (name \in DOMAIN rTools \/ inUse)) => rLast'.raised = "ToolError"
              /\ (rLast'.replace /\ name \in DOMAIN rTools) =>
                     /\ rLast'.raised = "none"
                     /\ RegistryGetTool(RegistryState', name) = Some(rLast'.inst)]_vars

\* A registered tool was replaced by another instance of the same name.
C11_Witness ==
    /\ rLast.op = "register" /\ rLast.replace /\ rLast.raised = "none"
    /\ rLast.name \in DOMAIN rTools
    /\ rLast.before # None /\ rLast.before # Some(rLast.inst)
    /\ Tool(rLast.before[1]).name = rLast.name
    /\ RegistryGetTool(RegistryState, rLast.name) = Some(rLast.inst)


\* The last operation was execute(name, **args) of a registered tool that the security
\* level allows.
Executed == rLast.op = "execute" /\ rLast.before # None /\ CheckSecurity(rLevel, Tool(rLast.before[1]).tags)
ExecutedTool == Tool(rLast.before[1])

\* The parameters of a tool that are required and have no default.
RequiredNoDefault(tool) ==
    {k \in DOMAIN tool.parameters : tool.parameters[k].required /\ tool.parameters[k].default = None}

\* C12 (as stated): execute with no arguments of a tool with one required parameter
\* without default does not call _execute_impl and returns a ToolResult with success false.
C12_MissingRequiredFailsFast ==
    (Executed /\ DOMAIN rLast.args = {} /\ Cardinality(RequiredNoDefault(ExecutedTool)) = 1) =>
        /\ ~rLast.invoked
        /\ rLast.raised = "none"
        /\ rLast.result # None
        /\ ~rLast.result[1].success


\* The body of the executed tool was called and raised.
BodyRaised ==
    /\ Executed /\ rLast.invoked
    /\ ExecuteImpl(ExecutedTool.body, ValidateParameters(rLast.args, ExecutedTool.parameters).validated).raised # "none"

\* C13 (as stated): whatever _execute_impl raises, of any class and with any message,
\* registry.execute raises nothing and returns a ToolResult with success false.
C13_BodyExceptionsBecomeFailedResults ==
    BodyRaised => (rLast.raised = "none" /\ rLast.result # None /\ ~rLast.result[1].success)


\* The last operation was execute of a registered tool tagged dangerous.
ExecutedDangerous ==
    rLast.op = "execute" /\ rLast.before # None /\ "dangerous" \in Tool(rLast.before[1]).tags

\* C14: execute of a tool tagged dangerous raises SecurityError at level safe and does not
\* call _execute_impl; at level unrestricted the same execute (arguments the tool accepts,
\* a body that returns) calls _execute_impl and returns a ToolResult with success true.
C14_DangerousDeniedAtSafeOnly ==
    ExecutedDangerous =>
        /\ rLevel = "safe" => (rLast.raised = "SecurityError" /\ ~rLast.invoked /\ rLast.result = None)
        /\ (/\ rLevel = "unrestricted"
            /\ ValidateParameters(rLast.args, Tool(rLast.before[1]).parameters).raised = "none"
            /\ Tool(rLast.before[1]).body = "returns") =>
               (rLast.raised = "none" /\ rLast.invoked /\ rLast.result # None /\ rLast.result[1].success)

\* The level was set to unrestricted and the dangerous tool then ran successfully.
C14_Witness ==
    /\ ExecutedDangerous /\ rLevel = "unrestricted"
    /\ rLast.invoked /\ rLast.raised = "none" /\ rLast.result[1].success


\* C15: at every level and for every tag set, _check_security allows the tool exactly when
\* none of its tags is in the level's restricted set, which is empty for unrestricted.
C15_AllowedIffNoDeniedTag ==
    probe.op = "check_security" =>
        /\ RestrictedTags("unrestricted") = {}
        /\ probe.allowed <=> (probe.tags \cap RestrictedTags(probe.level) = {})

\* A tool with one harmless and one restricted tag is denied.
C15_Witness ==
    /\ probe.op = "check_security" /\ probe.level = "sandboxed"
    /\ probe.tags = {"file_write", "utility"} /\ ~probe.allowed

\* The order unrestricted < safe < sandboxed < restricted.
LevelRank(level) ==
    CASE level = "unrestricted" -> 0 [] level = "safe" -> 1 [] level = "sandboxed" -> 2 [] OTHER -> 3

\* C16: for levels L1 < L2 the restricted set of L1 is a subset of that of L2, and a tag set
\* allowed at L2 is allowed at L1.
C16_DeniedTagsMonotone ==
    (probe.op = "check_security" /\ LevelRank(probe.level) < LevelRank(probe.other)) =>
        /\ RestrictedTags(probe.level) \subseteq RestrictedTags(probe.other)
        /\ probe.allowedOther => probe.allowed

\* A tag set allowed at safe and denied at sandboxed.
C16_Witness ==
    /\ probe.op = "check_security" /\ probe.level = "safe" /\ probe.other = "sandboxed"
    /\ probe.tags = {"file_write"} /\ probe.allowed /\ ~probe.allowedOther

\* C17 (as stated): every ToolResult that is constructed has success exactly when error is
\* absent, and holds exactly one of data and error: data on success, error on failure.
C17_ResultDataXorError ==
    (probe.op = "ToolResult" /\ probe.out.raised = "none") =>
        LET r == probe.out.result[1]
        IN  /\ r.success <=> r.error = None
            /\ r.success <=> r.data # None
            /\ (r.data # None) # (r.error # None)

\* The names of the parameters of a tool, and of the required ones.
ParameterNames(parameters) == {parameters[k].name : k \in DOMAIN parameters}
RequiredNames(parameters) == {parameters[k].name : k \in {j \in DOMAIN parameters : parameters[j].required}}

\* C19 (as stated): for every valid tool specification, mcp_to_tool(tool_to_mcp(tool))
\* yields a tool with the same name, the same parameter names and the same required names.
C19_RoundTripPreserves ==
    probe.op = "round_trip" =>
        /\ probe.back.raised = "none"
        /\ probe.back.name = probe.tool.name
        /\ ParameterNames(probe.back.parameters) = ParameterNames(probe.tool.parameters)
        /\ RequiredNames(probe.back.parameters) = RequiredNames(probe.tool.parameters)

\* C20 (as stated): a failed ToolResult converts to exactly one content block, the text
\* "Error: <message>", with isError true; and isError is always the negation of success.
C20_FailureIsOneErrorBlock ==
    probe.op = "tool_result_to_mcp" =>
        /\ probe.out.isError = ~probe.result.success
        /\ (~probe.result.success /\ probe.result.error # None) =>
               /\ probe.out.content = <<[type |-> "text", text |-> "Error: " \o probe.result.error[1]]>>
               /\ probe.out.isError


\* C18 (as stated): unregister(name) raises ToolNotFoundError when nothing is registered
\* under the name or alias; otherwise the tool, every alias that pointed to it and its
\* statistics are removed, and exists() is false for the name, for the tool's name and for
\* each of those aliases.
C18_UnregisterRemoves ==
    [][RegistryStep("unregister") =>
          LET name == rLast'.name
              target == Resolve(RegistryState, name)
              pointing == {al \in DOMAIN rAliases : rAliases[al] = target}
          IN  IF ~Exists(RegistryState, name)
              THEN rLast'.raised = "ToolNotFoundError" /\ UNCHANGED <<rTools, rAliases, rIndex, rStats>>
              ELSE /\ rLast'.raised = "none"
                   /\ target \notin DOMAIN rTools'
                   /\ pointing \cap DOMAIN rAliases' = {}
                   /\ target \notin DOMAIN rStats'
                   /\ \A n \in {name, target} \cup pointing : ~Exists(RegistryState', n)]_vars


\* C21 (as stated): a response with isError true converts to a failed ToolResult whatever
\* its content is; and a ToolResult converted to a response and back keeps its success.
C21_ErrorResponseIsFailedResult ==
    /\ (probe.op = "mcp_response_to_tool_result" /\ probe.isError) =>
           (probe.out.raised = "none" /\ ~probe.out.result[1].success)
    /\ probe.op = "tool_result_to_mcp" =>
           (probe.back.raised = "none" /\ probe.back.result[1].success = probe.result.success)


\* The capability each convenience operation of the client depends on.
ConvenienceOperations ==
    {<<"tools/list", "tools">>, <<"tools/call", "tools">>,
     <<"resources/list", "resources">>, <<"resources/read", "resources">>,
     <<"prompts/list", "prompts">>, <<"prompts/get", "prompts">>}

ConvenienceStep(method) ==
    IF method = "tools/list" THEN CListTools
    ELSE IF method = "tools/call" THEN CCallTool
    ELSE IF method = "resources/list" THEN CListResources
    ELSE IF method = "resources/read" THEN CReadResource
    ELSE IF method = "prompts/list" THEN CListPrompts
    ELSE CGetPrompt

\* The capabilities the peer offered do not include this one.
NotNegotiated(capability) ==
    /\ cInitialized
    /\ Get(cServerCapabilities[1], capability) = None

\* C22: a convenience operation whose capability the negotiated capabilities
\* do not include fails locally and sends no request.
C22_UnsupportedFailsLocally ==
    [][\A op \in ConvenienceOperations :
           (NotNegotiated(op[2]) /\ ConvenienceStep(op[1])) =>
               (c2s' = c2s /\ cIssued' = cIssued /\ op[1] \in cRejected')]_vars


IsNotification(m) == "method" \in DOMAIN m /\ "id" \notin DOMAIN m

\* C23: a message with a method and no id is delivered to every handler
\* registered for its method, in registration order, whichever of them
\* raise; the read loop goes on and handles the messages that follow.
C23_NotificationFanOut ==
    [][(CHandleMessage /\ IsNotification(Head(s2c))) =>
           LET handlers == Get(cHandlers, Head(s2c).method)
               made == SubSeq(cNotified', Len(cNotified) + 1, Len(cNotified'))
           IN  /\ SubSeq(cNotified', 1, Len(cNotified)) = cNotified
               /\ [i \in DOMAIN made |-> made[i].handler] = handlers
               /\ \A i \in DOMAIN made : made[i].method = Head(s2c).method
               /\ cProc' = "running"]_vars

\* A handler that raised was followed by the other handlers of the same
\* message, and the read loop has since delivered a second notification.
C23_Witness ==
    /\ Len(cNotified) = 2 * MaxHandlers
    /\ cNotified[1].logged
    /\ \A i \in 2..MaxHandlers : ~cNotified[i].logged
    /\ cNotified[MaxHandlers + 1].logged
    /\ cProc = "running"


\* The peer's k-th message is a ping the server has not read while a tool runs.
PingWaits(k) ==
    /\ sBusy # None
    /\ \E i \in DOMAIN c2s : c2s[i] = JSONRPCRequest(k, "ping", None)

PingAnswered(k) == \E i \in DOMAIN s2c : Get(s2c[i], "id") = Some(k)

\* C24: a ping that arrives while the server executes the tool of a
\* tools/call request is read and answered, however long the tool takes.
C24_PingAnsweredDuringToolCall ==
    \A k \in 1..(MaxMsgs + 1) : PingWaits(k) ~> PingAnswered(k)


\* C25: once stop() has returned, every dispatch task is cancelled or
\* finished, no dispatch task is started and no send is attempted.
C25_StoppedServerIsQuiet ==
    [][sStop' = "done" =>
           /\ \A i \in DOMAIN sTasks' : sTasks'[i].pc \in {"done", "cancelled"}
           /\ sStop = "done" =>
                  (Len(sTasks') = Len(sTasks) /\ s2c' = s2c /\ sLate' = sLate)]_vars


\* C26: once the transport is closed or its input has ended, a receive()
\* that is waiting returns (None) instead of blocking forever.
C26_ReceiveReturnsAfterClose ==
    (ioReceive = "waiting" /\ (ioClosed \/ ioReader = "ended")) ~> (ioReceive = "idle")

\* The messages the receive() calls have returned, then the queued ones.
Delivered ==
    [i \in 1..Len(SelectSeq(ioReturned, LAMBDA r : r # None)) |->
        SelectSeq(ioReturned, LAMBDA r : r # None)[i][1]] \o ioQueue

\* The positions of the frames of the stream that are JSON texts, in order.
RECURSIVE WellFormed(_, _)
WellFormed(stream, from) ==
    IF from > Len(stream) THEN <<>>
    ELSE (IF stream[from] = "json" THEN <<from>> ELSE <<>>) \o WellFormed(stream, from + 1)

\* C27: what receive() returns is the sequence of the well-formed frames of
\* the input, in order: none duplicated or reordered, and, once the reader
\* has stopped on an open transport, none lost.
C27_ReceivedIsWellFormedSubsequence ==
    LET wf == WellFormed(ioStream, 1)
    IN  /\ Len(Delivered) <= Len(wf)
        /\ Delivered = SubSeq(wf, 1, Len(Delivered))
        /\ (ioReader = "ended" /\ ~ioClosed) => Delivered = wf


\* C28: a sandboxed execution that exceeds its deadline gives the caller a
\* failed ToolResult and no exception, and the timer is not armed once
\* execute_sandboxed is left, whatever the execution did.
C28_TimeoutIsFailedResult ==
    probe.op = "execute_sandboxed" =>
        /\ probe.out.alarm # "armed"
        /\ probe.out.timedOut =>
               (probe.out.outcome.kind = "result" /\ ~probe.out.outcome.value.success)


\* The counters of a tool, zero before its first counted execution.
StatsOf(stats, tool_name) ==
    IF tool_name \in DOMAIN stats THEN stats[tool_name]
    ELSE [total_executions |-> 0, successful_executions |-> 0, failed_executions |-> 0]

\* The outcome recorded in last is a failure: an error was raised, or the
\* ToolResult has success false.
FailureOutcome(last) == last.raised # "none" \/ ~last.result[1].success

\* C30: after every execute of a registered tool, its total_executions is
\* successful_executions + failed_executions, and failed_executions has
\* grown by one exactly when the call failed (a raised error or a ToolResult
\* with success false).
C30_FailedCountsFailures ==
    [][(RegistryStep("execute") /\ rLast'.before # None) =>
           LET tool_name == Tool(rLast'.before[1]).name
               old == StatsOf(rStats, tool_name)
               new == StatsOf(rStats', tool_name)
           IN  /\ new.total_executions = new.successful_executions + new.failed_executions
               /\ new.failed_executions =
                      old.failed_executions + (IF FailureOutcome(rLast') THEN 1 ELSE 0)]_vars


\* C29: execute_async raises what execute would raise on the same registry
\* state, name and arguments, returns the ToolResult execute would return,
\* and leaves the statistics as execute would leave them.
C29_ExecuteAsyncAgreesWithExecute ==
    [][RegistryStep("execute_async") =>
           LET o == Execute(RegistryState, rLevel, rLast'.name, rLast'.args)
           IN  /\ rLast'.raised = o.raised
               /\ rLast'.result = o.result
               /\ rStats' = o.stats]_vars


\* infer_type_from_value (type_mapping.py 136-152): the parameter type of a
\* runtime value; an integer is also a number of the float type.
TypeMatches(value, type) ==
    \/ value.t = parameter_type_to_python_type(type)
    \/ type = "float" /\ value.t = "integer"

\* C31: execute with a key the tool does not declare, or with a value whose
\* type is not the declared one, raises ToolValidationError and the tool's
\* implementation is not invoked.
C31_InvalidArgumentsFailValidation ==
    probe.op = "execute" /\ (probe.key # "p" \/ ~TypeMatches(probe.value, probe.type))
        => probe.out.raised = "ToolValidationError" /\ ~probe.out.invoked


\* C32: whenever an entry leaves _pending_requests, its future is done in
\* the state that follows: the read loop never removes an entry and leaves
\* the future unresolved.
C32_RemovedEntryIsResolved ==
    [][\A k \in cPending \ cPending' : cFutures'[k].state # "pending"]_vars


IsInitializedNotification(m) ==
    "method" \in DOMAIN m /\ m.method = "initialized" /\ "id" \notin DOMAIN m

InitializeCalls == {k \in DOMAIN cCalls : cCalls[k].method = "initialize"}

InitializedSent == \E i \in DOMAIN c2s : IsInitializedNotification(c2s[i])

\* C33: the message connect() sends first is the initialize request; an
\* "initialized" notification on the transport follows that request and a
\* success response to it; the client is Ready only with the notification
\* sent; and once the answer to initialize is an error, the notification is
\* not sent and the client is not Ready.
C33_HandshakeOrder ==
    /\ [][(cConnect = "idle" /\ cConnect' # "idle" /\ ~tClosed) =>
             /\ c2s' = Append(c2s, JSONRPCRequest(cNextId, "initialize",
                                                  InitializeParams(SupportedVersion)))
             /\ ~cInitialized']_vars
    /\ [](\A i \in DOMAIN c2s :
             IsInitializedNotification(c2s[i]) =>
                 \E k \in InitializeCalls :
                     /\ cFutures[k].state = "result"
                     /\ ResponseValid("initialize", cFutures[k].value)
                     /\ \E j \in 1..(i - 1) : Get(c2s[j], "id") = Some(k)
                                              /\ c2s[j].method = "initialize")
    /\ [](cInitialized => InitializedSent /\ cConnect = "ready")
    /\ [](\A k \in InitializeCalls :
             cFutures[k].state = "error" => ~InitializedSent /\ ~cInitialized)

\* The handshake was completed: the success response arrived, the
\* notification is on the transport and the client is Ready.
C33_Witness ==
    /\ cInitialized
    /\ InitializedSent
    /\ \E k \in InitializeCalls : cFutures[k].state = "result" /\ cCalls[k].pc = "returned"


\* C34: once disconnect() has returned the client is not Ready and
\* _pending_requests is empty, and no operation called afterwards allocates a
\* request id, registers a future or sends (connect() apart).
C34_DisconnectedClientIsInert ==
    /\ [](cDisc = "done" => ~cInitialized /\ cPending = {})
    /\ [][(cDisc = "done" /\ cConnect' = cConnect) =>
             /\ cIssued' = cIssued
             /\ DOMAIN cFutures' = DOMAIN cFutures
             /\ c2s' = c2s]_vars


\* A tools/call, on an Initialized server, of a registered tool the security
\* level allows, with arguments that Tool.validate_parameters rejects.
InvalidArgumentsTask(i) ==
    /\ CallTask(i)
    /\ Resolved(i) # None
    /\ ValidateToolSafety(Resolved(i)[1], sLevel)
    /\ ~ValidateParametersOk(CallToolArguments(ParamsOf(sTasks[i].msg)))

\* C35: a tools/call whose arguments fail validation never runs the tool
\* body and puts nothing on the transport except, for a request, one error
\* response.
C35_InvalidArgumentsAnsweredByErrorOnly ==
    \A i \in DOMAIN sTasks :
        InvalidArgumentsTask(i) =>
            /\ sTasks[i].invoked = None
            /\ \A j \in DOMAIN sTasks[i].sent :
                  /\ IsResponse(sTasks[i].sent[j])
                  /\ sTasks[i].sent[j].error # None
            /\ sTasks[i].pc = "done" =>
                  Len(sTasks[i].sent) = IF MsgId(sTasks[i].msg) = None THEN 0 ELSE 1


\* The registered tools of a category, and those that carry a tag, by name.
CatalogByCategory(category) ==
    [n \in {m \in DOMAIN rTools : Tool(rTools[m]).category = category} |-> rTools[n]]
CatalogByTag(tag) ==
    [n \in {m \in DOMAIN rTools : tag \in Tool(rTools[m]).tags} |-> rTools[n]]

\* C36: get_by_category(c) and get_by_tag(g) return exactly the registered
\* tools whose category is c, respectively whose tags contain g.
C36_IndexesAgreeWithCatalog ==
    /\ \A c \in Categories : GetByCategory(RegistryState, c) = CatalogByCategory(c)
    /\ \A g \in Tags : GetByTag(RegistryState, g) = CatalogByTag(g)


\* C37: a register call that raises leaves the catalog, the aliases, the
\* indexes and the statistics as they were.
C37_FailedRegisterChangesNothing ==
    [][(RegistryStep("register") /\ rLast'.raised # "none") =>
           /\ rTools' = rTools
           /\ rAliases' = rAliases
           /\ rIndex' = rIndex
           /\ rStats' = rStats]_vars


\* C38: get(n) for the name n of a registered tool returns the tool
\* registered under n, and every alias points to a registered tool.
C38_NoShadowingNoDanglingAlias ==
    /\ \A n \in DOMAIN rTools : RegistryGetTool(RegistryState, n) = Some(rTools[n])
    /\ \A al \in DOMAIN rAliases : rAliases[al] \in DOMAIN rTools


\* C39: in the registry of tools/registry.py, list_tools(category=c) does
\* not raise and returns exactly the registered tools whose category is c.
C39_ListToolsByCategory ==
    \A c \in Categories :
        /\ OldListTools(c).raised = "none"
        /\ OldListTools(c).tools =
               [n \in {m \in DOMAIN oTools : OldTool(oTools[m]).category = c} |-> oTools[n]]


\* The message resolves or rejects the future of request k when the read
\* loop takes it.
Answers(m, k) ==
    /\ Get(m, "id") = Some(k)
    /\ "method" \notin DOMAIN m
    /\ "error" \in DOMAIN m => m.error # None

\* C40: when a notification handler awaits the response to a request it has
\* issued and the server's response is on the transport, the read loop
\* eventually resolves the request.
C40_HandlerRequestIsAnswered ==
    \A k \in 1..MaxRequests :
        (cHandling = Some(k) /\ \E i \in DOMAIN s2c : Answers(s2c[i], k))
            ~> (k \in DOMAIN cFutures /\ cFutures[k].state # "pending")

====
